---------------------------- MODULE Spec2Model ----------------------------
(***************************************************************************)
(* Model of the checkpoint execution pipeline of sui-core:                 *)
(*   crates/sui-core/src/checkpoints/checkpoint_executor/mod.rs            *)
(* CheckpointExecutor::run_epoch drives the execution of the synced        *)
(* checkpoints of one epoch: it spawns one task per checkpoint into a      *)
(* FuturesOrdered buffer, ratchets the persisted highest-executed          *)
(* watermark as the head of the buffer completes, and returns the next     *)
(* epoch's committee once the last checkpoint of the epoch is executed.    *)
(* The module also follows one execution task from inside (TaskSpec) and   *)
(* models the quorum driver of crates/sui-quorum-driver/src/lib.rs         *)
(* (DriverSpec); each specification leaves the others' variables alone.    *)
(***************************************************************************)
EXTENDS Integers, Sequences, FiniteSets, TLC

(***************************************************************************)
(* Bounds of the model.                                                    *)
(***************************************************************************)
\* Certified checkpoints have sequence numbers 0..MaxSeq.
MaxSeq == 3
\* checkpoint_execution_max_concurrency is drawn from 0..MaxConcurrency.
MaxConcurrency == 2
\* Capacity of the broadcast channel between StateSync and the executor.
MailboxCap == 1
\* Number of transient execute_checkpoint errors counted in a behaviour.
MaxErrors == 1
\* A checkpoint's contents list the transaction digests 1..MaxTxs.
MaxTxs == 2
\* Failed attempts of the one execution task that TaskSpec follows.
MaxRetries == 2
\* Value the local `periods` of execute_transactions is followed up to.
MaxPeriods == 3
\* Calls of execute_transaction, one per caller.
MaxCallers == 2
\* Calls of update_validators.
MaxUpdates == 1
\* Capacity of the quorum driver's task queue in the model.
QueueCap == 1
\* Capacity of the effects channel in the model.
EffectsCap == 1
\* Concurrent callers of next_effects.
MaxReaders == 2
\* update_validators calls followed in UpdateSpec
MaxSwaps == 2
\* Authority names a committee's voting rights are drawn over.
MaxAuthorities == 3
\* Largest voting right of one authority.
MaxWeight == 2

SeqNums == 0..MaxSeq

\* Option<CheckpointSequenceNumber> / Option<VerifiedCheckpoint>: None.
None == -1

VARIABLES
    \* ---- certified checkpoints and the CheckpointStore (persisted) ----
    checkpoints,                  \* seq -> [epoch, next_epoch_committee]
    highest_synced,               \* get_highest_synced_checkpoint (None or seq)
    highest_executed_checkpoint,  \* the persisted watermark (None or seq)
    \* ---- node configuration ----
    cur_epoch,                    \* epoch_store.epoch()
    max_concurrency,              \* config.checkpoint_execution_max_concurrency
    \* ---- run_epoch's locals ----
    pc,
    highest_executed,
    next_to_schedule,
    pending,
    no_more_scheduling,
    result,                       \* the committee run_epoch returned
    \* ---- spawned execution tasks, by sequence number ----
    task,
    \* ---- the broadcast channel ----
    mailbox,
    \* ---- metrics ----
    checkpoint_exec_recv_channel_overflow,
    checkpoint_exec_errors,
    \* ---- history ----
    lost,                         \* seqs whose finished task was lost in a crash
                                  \* and that the watermark has not reached since
    \* ---- one execution task seen from inside (execute_checkpoint) ----
    contents_stored,              \* get_checkpoint_contents finds the contents
    effects_stored,               \* the effects table holds the listed effects
    txes,                         \* digest -> [shared, synced]
    step,                         \* the task's position
    attempts,                     \* calls of execute_checkpoint so far
    lock_next,                    \* index of the lock loop in synced_txns
    locked,                       \* digests whose shared locks this attempt took
    enqueued,                     \* digests the TransactionManager was handed
    enqueue_calls,                \* calls of transaction_manager.enqueue
    periods,                      \* execute_transactions' local `periods`
    waiting_for,                  \* digests handed to notify_read_effects
    executed_effects,             \* digests whose effects exist (were executed)
    executed_in,                  \* insert_executed_transactions' records
    slept,                        \* seconds the task slept between attempts
    \* ---- the quorum driver ----
    validators,                   \* QuorumDriver.validators (ArcSwap)
    task_queue,                   \* the QuorumTask queue (mpsc)
    processor,                    \* task_queue_processor
    effects_channel,              \* the effects channel (mpsc)
    callers,                      \* calls of execute_transaction
    updates,                      \* calls of update_validators
    delivered,                    \* pairs returned by next_effects, in order
    logged,                       \* warn! and error! lines of the driver
    \* ---- concurrent calls of next_effects ----
    readers,                      \* reader -> position in next_effects
    subscriber_lock,              \* holder of the effects_subscriber mutex
    delivered_to,                 \* reader each pair of `delivered` went to
    \* ---- committee and SignatureAggregator (sui_types) ----
    aggregator,                   \* SignatureAggregator: committee, weight, used_authorities, partial
    outcome                       \* what the last append returned

vars == <<checkpoints, highest_synced, highest_executed_checkpoint,
          cur_epoch, max_concurrency, pc, highest_executed, next_to_schedule,
          pending, no_more_scheduling, result, task, mailbox,
          checkpoint_exec_recv_channel_overflow, checkpoint_exec_errors,
          lost,
          contents_stored, effects_stored, txes, step, attempts, lock_next,
          locked, enqueued, enqueue_calls, periods, waiting_for,
          executed_effects, executed_in, slept,
          validators, task_queue, processor, effects_channel, callers, updates,
          delivered, logged,
          readers, subscriber_lock, delivered_to,
          aggregator, outcome>>

store_vars == <<checkpoints, highest_synced, highest_executed_checkpoint>>
config_vars == <<cur_epoch, max_concurrency>>
local_vars == <<highest_executed, next_to_schedule, pending, no_more_scheduling, result>>
metric_vars == <<checkpoint_exec_recv_channel_overflow, checkpoint_exec_errors>>
history_vars == <<lost>>
checkpoint_vars == <<contents_stored, effects_stored, txes>>
attempt_vars == <<step, attempts, lock_next, locked, enqueued, enqueue_calls,
                  periods, waiting_for, executed_effects, executed_in, slept>>
driver_vars == <<validators, task_queue, processor, effects_channel, callers,
                 updates, delivered, logged>>
reader_vars == <<readers, subscriber_lock, delivered_to>>
aggregator_vars == <<aggregator, outcome>>
\* What run_epoch and its environment never touch.
outside_executor == <<checkpoint_vars, attempt_vars, driver_vars, reader_vars,
                      aggregator_vars>>
orchestrator_vars == <<store_vars, config_vars, pc, local_vars, mailbox,
                   checkpoint_exec_recv_channel_overflow, history_vars>>
\* What an execution task never touches.
outside_task == <<orchestrator_vars, checkpoint_vars, driver_vars, reader_vars,
                  aggregator_vars>>
\* What the quorum driver never touches.
outside_driver == <<orchestrator_vars, task, checkpoint_exec_errors,
                    checkpoint_vars, attempt_vars, aggregator_vars>>
outside_aggregator == <<orchestrator_vars, task, checkpoint_exec_errors,
                        checkpoint_vars, attempt_vars, driver_vars, reader_vars>>

(***************************************************************************)
(* Certified checkpoints.  A checkpoint is the last one of its epoch       *)
(* exactly when it carries the next epoch's committee; the checkpoint      *)
(* after it belongs to the next epoch.  An Option<committee> is a set of   *)
(* at most one element.                                                    *)
(***************************************************************************)
CommitteeOf(s) == [authorities |-> s]

CheckpointsOf(ends) ==
    [s \in SeqNums |->
        [epoch |-> Cardinality({e \in ends : e < s}),
         next_epoch_committee |-> IF s \in ends THEN {CommitteeOf(s)} ELSE {}]]

CertifiedHistories == {CheckpointsOf(ends) : ends \in SUBSET SeqNums}

\* Committee::new(epoch, voting_rights)
NewCommittee(epoch, voting_rights) == [epoch |-> epoch, voting_rights |-> voting_rights]

EmptyMailbox == [queue |-> <<>>, lagged |-> 0, closed |-> FALSE]

NoTasks == [s \in SeqNums |-> "none"]

\* all_tx_digests of the checkpoint TaskSpec follows, in checkpoint order.
Digests == 1..MaxTxs

\* No execution task is followed from inside.
TaskNotSpawned ==
    /\ contents_stored = FALSE
    /\ effects_stored = FALSE
    /\ txes = [d \in Digests |-> [shared |-> FALSE, synced |-> FALSE]]
    /\ step = "none"
    /\ attempts = 0
    /\ lock_next = 1
    /\ locked = <<>>
    /\ enqueued = {}
    /\ enqueue_calls = 0
    /\ periods = 1
    /\ waiting_for = {}
    /\ executed_effects = {}
    /\ executed_in = {}
    /\ slept = 0

\* ---- the quorum driver's values (crates/sui-quorum-driver/src/lib.rs) ----
Callers == 1..MaxCallers

RequestTypes == {"ImmediateReturn", "WaitForTxCert", "WaitForEffectsCert"}

NoCertificate == [tx |-> 0, agg |-> None]
NoEffects == [tx |-> 0, agg |-> None]
NoResponse == [kind |-> "none", certificate |-> NoCertificate, effects |-> NoEffects]

\* ExecuteTransactionResponse and the errors of execute_transaction.
ImmediateReturn == [NoResponse EXCEPT !.kind = "ImmediateReturn"]
TxCert(certificate) == [NoResponse EXCEPT !.kind = "TxCert", !.certificate = certificate]
EffectsCert(pair) ==
    [kind |-> "EffectsCert", certificate |-> pair.certificate, effects |-> pair.effects]
QuorumDriverCommunicationError ==
    [NoResponse EXCEPT !.kind = "QuorumDriverCommunicationError"]
AggregatorError == [NoResponse EXCEPT !.kind = "AggregatorError"]

\* QuorumTask, lines 21-25.
ProcessTransaction(transaction) ==
    [type |-> "ProcessTransaction", tx |-> transaction,
     certificate |-> NoCertificate, agg |-> None]
ProcessCertificate(certificate) ==
    [type |-> "ProcessCertificate", tx |-> certificate.tx,
     certificate |-> certificate, agg |-> None]
UpdateValidators(new_validators) ==
    [type |-> "UpdateValidators", tx |-> 0,
     certificate |-> NoCertificate, agg |-> new_validators]

Readers == 1..MaxReaders

\* The effects_subscriber mutex is free.
NoReader == 0

IdleCaller ==
    [pc |-> "idle", request_type |-> "none", agg |-> None,
     certificate |-> NoCertificate, effects |-> NoEffects, response |-> NoResponse]

IdleProcessor ==
    [pc |-> "recv", agg |-> None, tx |-> 0,
     certificate |-> NoCertificate, effects |-> NoEffects]

\* The aggregator QuorumDriverHandler::new is given, line 56.
InitialValidators == 0

\* QuorumDriverHandler::new, lines 56-73.
DriverNew ==
    /\ validators = InitialValidators
    /\ task_queue = <<>>
    /\ processor = IdleProcessor
    /\ effects_channel = [queue |-> <<>>, closed |-> FALSE]
    /\ callers = [c \in Callers |-> IdleCaller]
    /\ updates = [count |-> 0, requested |-> 0, result |-> "none"]
    /\ delivered = <<>>
    /\ logged = {}
    /\ readers = [r \in Readers |-> "idle"]
    /\ subscriber_lock = NoReader
    /\ delivered_to = <<>>

(***************************************************************************)
(* Committee (sui_types/src/committee.rs) and SignatureAggregator          *)
(* (sui_types/src/messages.rs).  voting_rights is the BTreeMap from        *)
(* authority name to votes; a signature is modelled by the name of the     *)
(* authority it is presented for and by whether signature.check accepts it.*)
(***************************************************************************)
\* Names in the voting_rights maps of the committees considered.
Authorities == 1..MaxAuthorities

\* A name that is a key of no committee's voting_rights.
Stranger == 0

\* The names a signature can be presented for.
AuthorityNames == Authorities \cup {Stranger}

\* voting_rights.iter().map(|(_, votes)| votes).sum() over the keys `names`.
RECURSIVE SumVotes(_, _)
SumVotes(voting_rights, names) ==
    IF names = {} THEN 0
    ELSE LET a == CHOOSE x \in names : TRUE
         IN  voting_rights[a] + SumVotes(voting_rights, names \ {a})

\* Committee::new, lines 25-37.
Committee_new(epoch, voting_rights) ==
    [epoch |-> epoch,
     voting_rights |-> voting_rights,
     total_votes |-> SumVotes(voting_rights, DOMAIN voting_rights)]

\* The committees considered: every map from Authorities to 0..MaxWeight.
Committees ==
    {Committee_new(0, voting_rights) :
        voting_rights \in [Authorities -> 0..MaxWeight]}

\* Committee::weight, lines 58-60.
weight(c, author) ==
    IF author \in DOMAIN c.voting_rights THEN c.voting_rights[author] ELSE 0

\* A threshold of two thirds of the votes, rounded down.
quorum_threshold_TwoThirds(c) == (2 * c.total_votes) \div 3

\* Committee::quorum_threshold, lines 62-66.
quorum_threshold(c) == (2 * c.total_votes) \div 3 + 1

\* A threshold of more than half of the votes.
validity_threshold_Majority(c) == c.total_votes \div 2 + 1

\* Committee::validity_threshold, lines 68-72.
validity_threshold(c) == (c.total_votes + 2) \div 3

\* SignatureAggregator::new_unsafe, lines 626-636; `signatures` is
\* partial.signatures, the authority of each pair.
new_unsafe(c) ==
    [committee |-> c, weight |-> 0, used_authorities |-> {},
     signatures |-> <<>>]

\* What a call on the committee or the aggregator returned.
NoOutcome == [kind |-> "none"]
Err(error) == [kind |-> "Err", error |-> error]
OkNone == [kind |-> "None"]
OkSome(certificate) == [kind |-> "Some", certificate |-> certificate]

\* An append that does not look at used_authorities.
append_CountsReuse(agg, authority, valid) ==
    IF ~valid
    THEN [aggregator |-> agg, result |-> Err("InvalidSignature")]
    ELSE LET used == [agg EXCEPT !.used_authorities = @ \cup {authority}]
             voting_rights == weight(agg.committee, authority)
         IN  IF ~(voting_rights > 0)
             THEN [aggregator |-> used, result |-> Err("UnknownSigner")]
             ELSE LET counted ==
                          [used EXCEPT !.weight = @ + voting_rights,
                                       !.signatures = Append(@, authority)]
                  IN  [aggregator |-> counted,
                       result |-> IF counted.weight
                                        >= quorum_threshold(agg.committee)
                                  THEN OkSome(counted.signatures)
                                  ELSE OkNone]

\* SignatureAggregator::append, lines 641-665: the aggregator after the
\* call and what the call returns.  The authority is inserted into
\* used_authorities (line 652) before its voting rights are looked at.
append(agg, authority, valid) ==
    IF ~valid
    THEN [aggregator |-> agg, result |-> Err("InvalidSignature")]
    ELSE IF authority \in agg.used_authorities
    THEN [aggregator |-> agg, result |-> Err("CertificateAuthorityReuse")]
    ELSE LET used == [agg EXCEPT !.used_authorities = @ \cup {authority}]
             voting_rights == weight(agg.committee, authority)
         IN  IF ~(voting_rights > 0)
             THEN [aggregator |-> used, result |-> Err("UnknownSigner")]
             ELSE LET counted ==
                          [used EXCEPT !.weight = @ + voting_rights,
                                       !.signatures = Append(@, authority)]
                  IN  [aggregator |-> counted,
                       result |-> IF counted.weight
                                        >= quorum_threshold(agg.committee)
                                  THEN OkSome(counted.signatures)
                                  ELSE OkNone]

\* The loop of CertifiedTransaction::check, lines 672-689, from the i-th
\* signature on, with the weight and the used authorities so far.
RECURSIVE CheckFrom(_, _, _, _, _)
CheckFrom(signatures, c, i, total, used) ==
    IF i > Len(signatures)
    THEN IF total >= quorum_threshold(c)
         THEN "Ok"
         ELSE "CertificateRequiresQuorum"
    ELSE IF signatures[i] \in used
    THEN "CertificateAuthorityReuse"
    ELSE IF ~(weight(c, signatures[i]) > 0)
    THEN "UnknownSigner"
    ELSE CheckFrom(signatures, c, i + 1, total + weight(c, signatures[i]),
                   used \cup {signatures[i]})

\* The signer conditions of CertifiedTransaction::check, lines 670-689.
check(signatures, c) == CheckFrom(signatures, c, 1, 0, {})

\* A node on which no SignatureAggregator has been made: there is no
\* aggregator and no result of a call.
AggregatorIdle ==
    /\ aggregator = None
    /\ outcome = None

Init ==
    /\ checkpoints \in CertifiedHistories
    /\ highest_synced = None
    /\ highest_executed_checkpoint = None
    /\ cur_epoch \in 0..1
    /\ max_concurrency \in 0..MaxConcurrency
    /\ pc = "idle"
    /\ highest_executed = None
    /\ next_to_schedule = 0
    /\ pending = <<>>
    /\ no_more_scheduling = FALSE
    /\ result = {}
    /\ task = NoTasks
    /\ mailbox = EmptyMailbox
    /\ checkpoint_exec_recv_channel_overflow = 0
    /\ checkpoint_exec_errors = 0
    /\ lost = {}
    /\ TaskNotSpawned
    /\ DriverNew
    /\ AggregatorIdle

(***************************************************************************)
(* run_epoch, lines 107-121: the first checkpoint to schedule.             *)
(***************************************************************************)
\* A restart that schedules the watermark's own checkpoint again.
FirstToSchedule_AtWatermark(he) == IF he = None THEN 0 ELSE he

FirstToSchedule(he) == IF he = None THEN 0 ELSE he + 1

RunEpoch ==
    /\ pc = "idle"
    /\ pc' = "loop"
    /\ highest_executed' = highest_executed_checkpoint
    /\ next_to_schedule' = FirstToSchedule(highest_executed_checkpoint)
    /\ pending' = <<>>
    /\ no_more_scheduling' = FALSE
    /\ result' = {}
    /\ task' = NoTasks
    /\ UNCHANGED <<store_vars, config_vars, mailbox, metric_vars, history_vars>>
    /\ UNCHANGED outside_executor

(***************************************************************************)
(* check_epoch_last_checkpoint: Some(committee) as a one-element set.      *)
(***************************************************************************)
\* The end-of-epoch test without the comparison of epochs.
check_epoch_last_checkpoint_AnyEpoch(epoch, checkpoint) ==
    IF checkpoint # None /\ checkpoints[checkpoint].next_epoch_committee # {}
    THEN {NewCommittee(epoch + 1, c.authorities) :
             c \in checkpoints[checkpoint].next_epoch_committee}
    ELSE {}

\* The committee built for the ended epoch instead of the next one.
check_epoch_last_checkpoint_SameEpoch(epoch, checkpoint) ==
    IF checkpoint # None
       /\ checkpoints[checkpoint].epoch = epoch
       /\ checkpoints[checkpoint].next_epoch_committee # {}
    THEN {NewCommittee(epoch, c.authorities) :
             c \in checkpoints[checkpoint].next_epoch_committee}
    ELSE {}

check_epoch_last_checkpoint(epoch, checkpoint) ==
    IF checkpoint # None
       /\ checkpoints[checkpoint].epoch = epoch
       /\ checkpoints[checkpoint].next_epoch_committee # {}
    THEN {NewCommittee(epoch + 1, c.authorities) :
             c \in checkpoints[checkpoint].next_epoch_committee}
    ELSE {}

(***************************************************************************)
(* schedule_synced_checkpoints, lines 204-239, with schedule_checkpoint    *)
(* (lines 241-295) inlined in its loop.  st is the loop's state            *)
(* [pending, next, task, stop, panic]: stop is the early `return true`,    *)
(* panic the failed epoch assertion of schedule_checkpoint.  The store     *)
(* holds every checkpoint up to the highest synced one, so the lookup by   *)
(* sequence number succeeds.                                               *)
(***************************************************************************)
\* The while condition stopping one short of the highest synced checkpoint.
ScheduleGuard_SkipLatest(st, latest) ==
    st.next < latest /\ Len(st.pending) < max_concurrency

\* The while condition letting one task more than the limit in.
ScheduleGuard_OffByOne(st, latest) ==
    st.next <= latest /\ Len(st.pending) <= max_concurrency

\* The while condition, lines 217-218.
ScheduleGuard(st, latest) ==
    st.next <= latest /\ Len(st.pending) < max_concurrency

\* The loop body without any look at the checkpoint's epoch.
ScheduleBody_NoEpochCheck(st) ==
    [st EXCEPT !.pending = Append(st.pending, st.next),
               !.task = [st.task EXCEPT ![st.next] = "running"],
               !.next = st.next + 1]

\* The loop body without the assertion of schedule_checkpoint.
ScheduleBody_NoAssert(st) ==
    IF checkpoints[st.next].epoch > cur_epoch
    THEN [st EXCEPT !.stop = TRUE]
    ELSE [st EXCEPT !.pending = Append(st.pending, st.next),
                    !.task = [st.task EXCEPT ![st.next] = "running"],
                    !.next = st.next + 1]

\* The loop body that leaves the cursor where it is.
ScheduleBody_CursorStays(st) ==
    IF checkpoints[st.next].epoch > cur_epoch
    THEN [st EXCEPT !.stop = TRUE]
    ELSE IF checkpoints[st.next].epoch # cur_epoch
    THEN [st EXCEPT !.panic = TRUE]
    ELSE [st EXCEPT !.pending = Append(st.pending, st.next),
                    !.task = [st.task EXCEPT ![st.next] = "running"]]

\* The loop body that stops after the first checkpoint of a later epoch
\* got its task.
ScheduleBody_StopAfterSpawn(st) ==
    IF checkpoints[st.next].epoch < cur_epoch
    THEN [st EXCEPT !.panic = TRUE]
    ELSE [st EXCEPT !.pending = Append(st.pending, st.next),
                    !.task = [st.task EXCEPT ![st.next] = "running"],
                    !.next = st.next + 1,
                    !.stop = checkpoints[st.next].epoch > cur_epoch]

\* The loop body, lines 220-235: a checkpoint of a later epoch ends the
\* scheduling of this run, any other epoch than the run's fails the
\* assertion of schedule_checkpoint, and a checkpoint of the run's epoch
\* gets a task pushed to the back of the buffer.
ScheduleBody(st) ==
    IF checkpoints[st.next].epoch > cur_epoch
    THEN [st EXCEPT !.stop = TRUE]
    ELSE IF checkpoints[st.next].epoch # cur_epoch
    THEN [st EXCEPT !.panic = TRUE]
    ELSE [st EXCEPT !.pending = Append(st.pending, st.next),
                    !.task = [st.task EXCEPT ![st.next] = "running"],
                    !.next = st.next + 1]

\* A loop that also ends the scheduling of the run when the buffer is full.
RECURSIVE ScheduleLoop_StopsAtLimit(_, _)
ScheduleLoop_StopsAtLimit(st, latest) ==
    IF ~ScheduleGuard(st, latest)
    THEN [st EXCEPT !.stop = Len(st.pending) >= max_concurrency]
    ELSE LET n == ScheduleBody(st)
         IN  IF n.stop \/ n.panic THEN n ELSE ScheduleLoop_StopsAtLimit(n, latest)

RECURSIVE ScheduleLoop(_, _)
ScheduleLoop(st, latest) ==
    IF ~ScheduleGuard(st, latest)
    THEN st
    ELSE LET n == ScheduleBody(st)
         IN  IF n.stop \/ n.panic THEN n ELSE ScheduleLoop(n, latest)

schedule_synced_checkpoints(p, n, t) ==
    LET st0 == [pending |-> p, next |-> n, task |-> t, stop |-> FALSE, panic |-> FALSE]
    IN  IF highest_synced = None THEN st0 ELSE ScheduleLoop(st0, highest_synced)

(***************************************************************************)
(* The top of run_epoch's loop, lines 122-142, up to the select.           *)
(***************************************************************************)
LoopTop ==
    /\ pc = "loop"
    /\ LET committee == check_epoch_last_checkpoint(cur_epoch, highest_executed)
           st == schedule_synced_checkpoints(pending, next_to_schedule, task)
       IN  IF committee # {}
           THEN /\ IF pending = <<>>
                   THEN pc' = "returned" /\ result' = committee
                   ELSE pc' = "panicked" /\ result' = result
                /\ UNCHANGED <<pending, next_to_schedule, task, no_more_scheduling>>
           ELSE IF no_more_scheduling
           THEN /\ pc' = "select"
                /\ UNCHANGED <<pending, next_to_schedule, task, no_more_scheduling, result>>
           ELSE /\ pc' = IF st.panic THEN "panicked" ELSE "select"
                /\ pending' = st.pending
                /\ next_to_schedule' = st.next
                /\ task' = st.task
                /\ no_more_scheduling' = st.stop
                /\ result' = result
    /\ UNCHANGED <<store_vars, config_vars, highest_executed, mailbox, metric_vars,
                   history_vars>>
    /\ UNCHANGED outside_executor

(***************************************************************************)
(* pending.next() on the FuturesOrdered buffer: only the head (the task    *)
(* pushed first) can be yielded, and only once that task has ended.  The   *)
(* result is the set of buffer positions that may be yielded now.          *)
(***************************************************************************)
\* A buffer that yields whichever task has ended (FuturesUnordered).
FuturesUnorderedNext(p, t) == {i \in 1..Len(p) : t[p[i]] \in {"done", "aborted"}}

FuturesOrderedNext(p, t) ==
    IF p # <<>> /\ t[Head(p)] \in {"done", "aborted"} THEN {1} ELSE {}

\* A buffer that yields an entry and keeps it.
RemoveAt_Keeps(p, i) == p

RemoveAt(p, i) == [j \in 1..(Len(p) - 1) |-> IF j < i THEN p[j] ELSE p[j + 1]]

(***************************************************************************)
(* finished_executing_checkpoint, lines 158-176: the two assertions, and   *)
(* the value written by update_highest_executed_checkpoint.                *)
(***************************************************************************)
\* An assertion that only rules out a regression.
RatchetAssertion_NoRegression(prev_highest, seq) ==
    IF prev_highest # None THEN prev_highest < seq ELSE TRUE

RatchetAssertion(prev_highest, seq) ==
    IF prev_highest # None THEN prev_highest + 1 = seq ELSE seq = 0

finished_executing_checkpoint(seq) ==
    IF RatchetAssertion(highest_executed_checkpoint, seq)
    THEN [panic |-> FALSE, watermark |-> seq]
    ELSE [panic |-> TRUE, watermark |-> highest_executed_checkpoint]

(***************************************************************************)
(* select!, first branch (lines 148-151): Some(Ok(checkpoint)) from        *)
(* pending.next().                                                         *)
(***************************************************************************)
Completed ==
    /\ pc = "select"
    /\ \E i \in FuturesOrderedNext(pending, task) :
          /\ task[pending[i]] = "done"
          /\ LET fin == finished_executing_checkpoint(pending[i])
             IN  /\ highest_executed_checkpoint' = fin.watermark
                 /\ IF fin.panic
                    THEN pc' = "panicked" /\ highest_executed' = highest_executed
                    ELSE pc' = "loop" /\ highest_executed' = pending[i]
          /\ pending' = RemoveAt(pending, i)
    /\ lost' = lost \ {highest_executed_checkpoint'}
    /\ UNCHANGED <<checkpoints, highest_synced, config_vars, next_to_schedule,
                   no_more_scheduling, result, task, mailbox, metric_vars>>
    /\ UNCHANGED outside_executor

(***************************************************************************)
(* select!, first branch when pending.next() yields Some(Err(_)): the      *)
(* pattern does not match, the entry is gone from the buffer, the branch   *)
(* is disabled and the select goes on waiting for the mailbox alone.       *)
(***************************************************************************)
\* A select that takes the end of an aborted task for a completion.
JoinError_Ratchets ==
    /\ pc = "select"
    /\ \E i \in FuturesOrderedNext(pending, task) :
          /\ task[pending[i]] = "aborted"
          /\ highest_executed_checkpoint' = pending[i]
          /\ highest_executed' = pending[i]
          /\ pending' = RemoveAt(pending, i)
    /\ pc' = "loop"
    /\ UNCHANGED <<checkpoints, highest_synced, config_vars, next_to_schedule,
                   no_more_scheduling, result, task, mailbox, metric_vars, lost>>
    /\ UNCHANGED outside_executor

JoinError ==
    /\ pc = "select"
    /\ \E i \in FuturesOrderedNext(pending, task) :
          /\ task[pending[i]] = "aborted"
          /\ pending' = RemoveAt(pending, i)
    /\ pc' = "select_recv"
    /\ UNCHANGED <<store_vars, config_vars, highest_executed, next_to_schedule,
                   no_more_scheduling, result, task, mailbox, metric_vars,
                   history_vars>>
    /\ UNCHANGED outside_executor

(***************************************************************************)
(* The broadcast channel (tokio::sync::broadcast).  A send into a full     *)
(* queue overwrites the oldest message, which the receiver learns as       *)
(* Lagged(n) on its next recv; Closed is returned once every sender is     *)
(* gone and no message is left.                                            *)
(***************************************************************************)
Send(mb, msg) ==
    IF Len(mb.queue) < MailboxCap
    THEN [mb EXCEPT !.queue = Append(mb.queue, msg)]
    ELSE [mb EXCEPT !.queue = Append(Tail(mb.queue), msg), !.lagged = mb.lagged + 1]

RecvReady(mb) == mb.lagged > 0 \/ mb.queue # <<>> \/ mb.closed

Recv(mb) ==
    IF mb.lagged > 0
    THEN [received |-> [kind |-> "Lagged", n |-> mb.lagged],
          mailbox |-> [mb EXCEPT !.lagged = 0]]
    ELSE IF mb.queue # <<>>
    THEN [received |-> [kind |-> "Ok", n |-> Head(mb.queue)],
          mailbox |-> [mb EXCEPT !.queue = Tail(mb.queue)]]
    ELSE [received |-> [kind |-> "Closed", n |-> 0], mailbox |-> mb]

\* inc() in place of inc_by(num_skipped).
checkpoint_received_IncOne(received) ==
    CASE received.kind = "Ok" ->
            [panic |-> FALSE, overflow |-> checkpoint_exec_recv_channel_overflow]
      [] received.kind = "Lagged" ->
            [panic |-> FALSE,
             overflow |-> checkpoint_exec_recv_channel_overflow + 1]
      [] received.kind = "Closed" ->
            [panic |-> TRUE, overflow |-> checkpoint_exec_recv_channel_overflow]

\* Closed handled like Ok: logged, no panic.
checkpoint_received_ClosedIgnored(received) ==
    CASE received.kind = "Ok" ->
            [panic |-> FALSE, overflow |-> checkpoint_exec_recv_channel_overflow]
      [] received.kind = "Lagged" ->
            [panic |-> FALSE,
             overflow |-> checkpoint_exec_recv_channel_overflow + received.n]
      [] received.kind = "Closed" ->
            [panic |-> FALSE, overflow |-> checkpoint_exec_recv_channel_overflow]

(***************************************************************************)
(* checkpoint_received, lines 178-201.                                     *)
(***************************************************************************)
checkpoint_received(received) ==
    CASE received.kind = "Ok" ->
            [panic |-> FALSE, overflow |-> checkpoint_exec_recv_channel_overflow]
      [] received.kind = "Lagged" ->
            [panic |-> FALSE,
             overflow |-> checkpoint_exec_recv_channel_overflow + received.n]
      [] received.kind = "Closed" ->
            [panic |-> TRUE, overflow |-> checkpoint_exec_recv_channel_overflow]

(***************************************************************************)
(* select!, second branch (line 153).                                      *)
(***************************************************************************)
Received ==
    /\ pc \in {"select", "select_recv"}
    /\ RecvReady(mailbox)
    /\ LET r == Recv(mailbox)
           h == checkpoint_received(r.received)
       IN  /\ mailbox' = r.mailbox
           /\ checkpoint_exec_recv_channel_overflow' = h.overflow
           /\ pc' = IF h.panic THEN "panicked" ELSE "loop"
    /\ UNCHANGED <<store_vars, config_vars, local_vars, task,
                   checkpoint_exec_errors, history_vars>>
    /\ UNCHANGED outside_executor

(***************************************************************************)
(* The execution task spawned by schedule_checkpoint, lines 273-294: it    *)
(* retries execute_checkpoint until it succeeds (ExecuteOk), counting an   *)
(* error per failed attempt (ExecuteErr); execute_checkpoint panics when   *)
(* the checkpoint's contents are not in the store (ExecutePanic), which    *)
(* ends the task with a JoinError.                                         *)
(***************************************************************************)
ExecuteOk(s) ==
    /\ pc \notin {"idle", "panicked"}
    /\ task[s] = "running"
    /\ task' = [task EXCEPT ![s] = "done"]
    /\ UNCHANGED <<store_vars, config_vars, pc, local_vars, mailbox, metric_vars,
                   history_vars>>
    /\ UNCHANGED outside_executor

ExecuteErr(s) ==
    /\ pc \notin {"idle", "panicked"}
    /\ task[s] = "running"
    /\ checkpoint_exec_errors < MaxErrors
    /\ checkpoint_exec_errors' = checkpoint_exec_errors + 1
    /\ UNCHANGED <<store_vars, config_vars, pc, local_vars, task, mailbox,
                   checkpoint_exec_recv_channel_overflow, history_vars>>
    /\ UNCHANGED outside_executor

ExecutePanic(s) ==
    /\ pc \notin {"idle", "panicked"}
    /\ task[s] = "running"
    /\ task' = [task EXCEPT ![s] = "aborted"]
    /\ UNCHANGED <<store_vars, config_vars, pc, local_vars, mailbox, metric_vars,
                   history_vars>>
    /\ UNCHANGED outside_executor

(***************************************************************************)
(* StateSync: stores the next certified checkpoint, moves the highest      *)
(* synced watermark and notifies the executor; or goes away, dropping the  *)
(* sender.                                                                 *)
(***************************************************************************)
Sync ==
    /\ pc # "panicked"
    /\ ~mailbox.closed
    /\ highest_synced < MaxSeq
    /\ LET s == highest_synced + 1
       IN  /\ highest_synced' = s
           /\ mailbox' = Send(mailbox, s)
    /\ UNCHANGED <<checkpoints, highest_executed_checkpoint, config_vars, pc,
                   local_vars, task, metric_vars, history_vars>>
    /\ UNCHANGED outside_executor

CloseChannel ==
    /\ pc # "panicked"
    /\ ~mailbox.closed
    /\ mailbox' = [mailbox EXCEPT !.closed = TRUE]
    /\ UNCHANGED <<store_vars, config_vars, pc, local_vars, task, metric_vars,
                   history_vars>>
    /\ UNCHANGED outside_executor

(***************************************************************************)
(* The node process dies (a crash, or the restart after a panic) and       *)
(* starts again: only the CheckpointStore and the epoch store survive.     *)
(***************************************************************************)
Crash ==
    /\ pc \in {"loop", "select", "select_recv", "panicked"}
    /\ lost' = lost \cup {s \in SeqNums : task[s] = "done"
                                          /\ s > highest_executed_checkpoint}
    /\ pc' = "idle"
    /\ highest_executed' = None
    /\ next_to_schedule' = 0
    /\ pending' = <<>>
    /\ no_more_scheduling' = FALSE
    /\ result' = {}
    /\ task' = NoTasks
    /\ mailbox' = EmptyMailbox
    /\ checkpoint_exec_recv_channel_overflow' = 0
    /\ checkpoint_exec_errors' = 0
    /\ UNCHANGED <<store_vars, config_vars>>
    /\ UNCHANGED outside_executor

(***************************************************************************)
(* The caller of run_epoch: after run_epoch returned the next committee,   *)
(* the node reconfigures to that committee's epoch and runs the next       *)
(* epoch.                                                                  *)
(***************************************************************************)
Reconfigure ==
    /\ pc = "returned"
    /\ \E c \in result : cur_epoch' = c.epoch
    /\ pc' = "idle"
    /\ UNCHANGED <<store_vars, max_concurrency, local_vars, task, mailbox,
                   metric_vars, history_vars>>
    /\ UNCHANGED outside_executor

Next ==
    \/ RunEpoch
    \/ LoopTop
    \/ Completed
    \/ JoinError
    \/ Received
    \/ \E s \in SeqNums : ExecuteOk(s)
    \/ \E s \in SeqNums : ExecuteErr(s)
    \/ \E s \in SeqNums : ExecutePanic(s)
    \/ Sync
    \/ CloseChannel
    \/ Crash
    \/ Reconfigure

Spec == Init /\ [][Next]_vars

(***************************************************************************)
(* The specification for liveness: one node process that stays up, a       *)
(* producer that keeps the channel open, and tasks whose attempts may      *)
(* fail (ExecuteErr) but do not panic.  run_epoch is called, its           *)
(* synchronous code runs on, the select takes a branch that is ready, and  *)
(* a running task eventually has a successful attempt.  StateSync is       *)
(* under no obligation to sync more.  The history of certified             *)
(* checkpoints has at most one end of epoch, and the node starts in        *)
(* epoch 0.                                                                *)
(***************************************************************************)
LiveInit ==
    /\ Init
    /\ cur_epoch = 0
    /\ Cardinality({s \in SeqNums : checkpoints[s].next_epoch_committee # {}}) <= 1

LiveNext ==
    \/ RunEpoch
    \/ LoopTop
    \/ Completed
    \/ Received
    \/ \E s \in SeqNums : ExecuteOk(s)
    \/ \E s \in SeqNums : ExecuteErr(s)
    \/ Sync
    \/ Reconfigure

Fairness ==
    /\ WF_vars(RunEpoch)
    /\ WF_vars(LoopTop)
    /\ WF_vars(Completed)
    /\ WF_vars(Received)
    /\ \A s \in SeqNums : WF_vars(ExecuteOk(s))

LiveSpec == LiveInit /\ [][LiveNext]_vars /\ Fairness

(***************************************************************************)
(* One execution task seen from inside: the retry loop of                  *)
(* schedule_checkpoint (lines 273-294) around execute_checkpoint (lines    *)
(* 322-363) and execute_transactions (lines 365-461).  The task followed   *)
(* is the one of checkpoint 0, scheduled by a run of epoch 0; ExecuteOk,   *)
(* ExecuteErr and ExecutePanic above are its outcomes seen from run_epoch. *)
(***************************************************************************)
TaskSeq == 0

\* tokio::time::sleep(Duration::from_secs(1)) of the retry loop.
RetryDelaySecs == 1

TaskInit ==
    /\ checkpoints = CheckpointsOf({})
    /\ highest_synced = TaskSeq
    /\ highest_executed_checkpoint = None
    /\ cur_epoch = 0
    /\ max_concurrency = 1
    /\ pc = "select"
    /\ highest_executed = None
    /\ next_to_schedule = TaskSeq + 1
    /\ pending = <<TaskSeq>>
    /\ no_more_scheduling = FALSE
    /\ result = {}
    /\ task = [NoTasks EXCEPT ![TaskSeq] = "running"]
    /\ mailbox = EmptyMailbox
    /\ checkpoint_exec_recv_channel_overflow = 0
    /\ checkpoint_exec_errors = 0
    /\ lost = {}
    /\ contents_stored \in BOOLEAN
    /\ effects_stored \in BOOLEAN
    /\ txes \in [Digests -> [shared : BOOLEAN, synced : BOOLEAN]]
    /\ step = "get_contents"
    /\ attempts = 1
    /\ lock_next = 1
    /\ locked = <<>>
    /\ enqueued = {}
    /\ enqueue_calls = 0
    /\ periods = 1
    /\ waiting_for = {}
    /\ executed_effects = {}
    /\ executed_in = {}
    /\ slept = 0
    /\ DriverNew
    /\ AggregatorIdle

\* synced_txns, lines 373-383: the digests found in the synced-transactions
\* table, in checkpoint order (multi_get's None entries are flattened away).
synced_txns == SelectSeq([d \in Digests |-> d], LAMBDA d : txes[d].synced)

\* A wait for the effects of the transactions found in the table only.
all_tx_digests_SyncedOnly == {d \in Digests : txes[d].synced}

\* all_tx_digests, lines 373-374.
all_tx_digests == Digests

\* A `?` of execute_checkpoint or execute_transactions returns the error
\* to the retry loop, which logs it and goes to sleep (lines 285-289).
ReturnsErr ==
    /\ checkpoint_exec_errors < MaxRetries
    /\ step' = "sleep"
    /\ UNCHANGED <<attempts, lock_next, locked, enqueued, enqueue_calls, periods,
                   waiting_for, executed_effects, executed_in, slept,
                   task, checkpoint_exec_errors>>

\* A panic unwinds the task: its JoinHandle resolves to a JoinError.
Panics ==
    /\ step' = "panicked"
    /\ task' = [task EXCEPT ![TaskSeq] = "aborted"]
    /\ UNCHANGED <<attempts, lock_next, locked, enqueued, enqueue_calls, periods,
                   waiting_for, executed_effects, executed_in, slept,
                   checkpoint_exec_errors>>

\* The task moves on to the next step of the attempt.
GoesTo(next) ==
    /\ step' = next
    /\ UNCHANGED <<attempts, lock_next, locked, enqueued, enqueue_calls, periods,
                   waiting_for, executed_effects, executed_in, slept,
                   task, checkpoint_exec_errors>>

\* execute_checkpoint, lines 335-343.
GetContents ==
    /\ step = "get_contents"
    /\ \/ contents_stored /\ GoesTo("resolve")
       \/ ~contents_stored /\ Panics
       \/ ReturnsErr
    /\ UNCHANGED outside_task

\* execute_transactions, lines 373-401.
ResolveTransactions ==
    /\ step = "resolve"
    /\ \/ effects_stored /\ GoesTo("locks")
       \/ ~effects_stored /\ Panics
       \/ ReturnsErr
    /\ UNCHANGED outside_task

\* A lock loop that goes on to the next transaction when an acquisition
\* fails.
AcquireSharedLocks_IgnoresFailure ==
    /\ step = "locks"
    /\ IF lock_next > Len(synced_txns)
       THEN GoesTo("insert_pending")
       ELSE LET tx == synced_txns[lock_next]
            IN  /\ lock_next' = lock_next + 1
                /\ \/ locked' = IF txes[tx].shared THEN Append(locked, tx) ELSE locked
                   \/ txes[tx].shared /\ locked' = locked
                /\ UNCHANGED <<step, attempts, enqueued, enqueue_calls, periods,
                               waiting_for, executed_effects, executed_in, slept,
                               task, checkpoint_exec_errors>>
    /\ UNCHANGED outside_task

\* One round of the lock loop, lines 403-413.
AcquireSharedLocks ==
    /\ step = "locks"
    /\ IF lock_next > Len(synced_txns)
       THEN GoesTo("insert_pending")
       ELSE LET tx == synced_txns[lock_next]
            IN  \/ /\ lock_next' = lock_next + 1
                   /\ locked' = IF txes[tx].shared THEN Append(locked, tx) ELSE locked
                   /\ UNCHANGED <<step, attempts, enqueued, enqueue_calls, periods,
                                  waiting_for, executed_effects, executed_in, slept,
                                  task, checkpoint_exec_errors>>
                \/ txes[tx].shared /\ ReturnsErr
    /\ UNCHANGED outside_task

\* epoch_store.insert_pending_certificates, line 414.
InsertPendingCertificates ==
    /\ step = "insert_pending"
    /\ \/ GoesTo("enqueue")
       \/ ReturnsErr
    /\ UNCHANGED outside_task

\* transaction_manager.enqueue, line 416, and the entry of the wait loop,
\* lines 418-423.
Enqueue ==
    /\ step = "enqueue"
    /\ \/ /\ enqueued' = enqueued \cup {synced_txns[i] : i \in 1..Len(synced_txns)}
          /\ enqueue_calls' = enqueue_calls + 1
          /\ periods' = 1
          /\ waiting_for' = all_tx_digests
          /\ step' = "wait"
          /\ UNCHANGED <<attempts, lock_next, locked, executed_effects, executed_in,
                         slept, task, checkpoint_exec_errors>>
       \/ ReturnsErr
    /\ UNCHANGED outside_task

\* A notify_read_effects that resolves at once.
EffectsExist_Always == TRUE

\* notify_read_effects resolves once effects exist for all the digests it
\* was handed.
EffectsExist == waiting_for \subseteq executed_effects

\* The wait loop's Ok(Ok(_)) arm, lines 451-458.
EffectsRead ==
    /\ step = "wait"
    /\ EffectsExist
    /\ \/ /\ executed_in' = executed_in \cup
                [digest : all_tx_digests, epoch : {cur_epoch}, seq : {TaskSeq}]
          /\ step' = "returned"
          /\ task' = [task EXCEPT ![TaskSeq] = "done"]
          /\ UNCHANGED <<attempts, lock_next, locked, enqueued, enqueue_calls,
                         periods, waiting_for, executed_effects, slept,
                         checkpoint_exec_errors>>
       \/ ReturnsErr
    /\ UNCHANGED outside_task

\* The wait loop's Ok(Err(err)) arm, line 450.
EffectsErr ==
    /\ step = "wait"
    /\ ReturnsErr
    /\ UNCHANGED outside_task

\* The wait loop's Err(_elapsed) arm, lines 426-449: the missing digests
\* are read from the effects store for the log, with an expect on the
\* read, and the loop goes round.
EffectsTimeout ==
    /\ step = "wait"
    /\ ~EffectsExist
    /\ \/ /\ periods < MaxPeriods
          /\ periods' = periods + 1
          /\ waiting_for' = all_tx_digests
          /\ UNCHANGED <<step, attempts, lock_next, locked, enqueued, enqueue_calls,
                         executed_effects, executed_in, slept, task,
                         checkpoint_exec_errors>>
       \/ Panics
    /\ UNCHANGED outside_task

\* The delay before the attempt after `attempt`, line 289.
RetryDelay(attempt) == RetryDelaySecs

\* The retry loop that goes round without counting the error.
Retry_NoCount ==
    /\ step = "sleep"
    /\ slept' = slept + RetryDelay(attempts)
    /\ attempts' = attempts + 1
    /\ step' = "get_contents"
    /\ lock_next' = 1
    /\ locked' = <<>>
    /\ periods' = 1
    /\ waiting_for' = {}
    /\ UNCHANGED <<enqueued, enqueue_calls, executed_effects, executed_in, task,
                   checkpoint_exec_errors>>
    /\ UNCHANGED outside_task

\* The retry loop, lines 274-291: after the sleep the error is counted and
\* execute_checkpoint is called again, with fresh locals.
Retry ==
    /\ step = "sleep"
    /\ slept' = slept + RetryDelay(attempts)
    /\ checkpoint_exec_errors' = checkpoint_exec_errors + 1
    /\ attempts' = attempts + 1
    /\ step' = "get_contents"
    /\ lock_next' = 1
    /\ locked' = <<>>
    /\ periods' = 1
    /\ waiting_for' = {}
    /\ UNCHANGED <<enqueued, enqueue_calls, executed_effects, executed_in, task>>
    /\ UNCHANGED outside_task

\* The TransactionManager executes a transaction it was handed.
TransactionManagerExecutes(d) ==
    /\ d \in enqueued \ executed_effects
    /\ executed_effects' = executed_effects \cup {d}
    /\ UNCHANGED <<step, attempts, lock_next, locked, enqueued, enqueue_calls,
                   periods, waiting_for, executed_in, slept, task,
                   checkpoint_exec_errors>>
    /\ UNCHANGED outside_task

\* A transaction the task did not hand over is executed by another path
\* of the node.
ExecutedElsewhere(d) ==
    /\ step # "none"
    /\ d \notin enqueued \cup executed_effects
    /\ executed_effects' = executed_effects \cup {d}
    /\ UNCHANGED <<step, attempts, lock_next, locked, enqueued, enqueue_calls,
                   periods, waiting_for, executed_in, slept, task,
                   checkpoint_exec_errors>>
    /\ UNCHANGED outside_task

TaskNext ==
    \/ GetContents
    \/ ResolveTransactions
    \/ AcquireSharedLocks
    \/ InsertPendingCertificates
    \/ Enqueue
    \/ EffectsRead
    \/ EffectsErr
    \/ EffectsTimeout
    \/ Retry
    \/ \E d \in Digests : TransactionManagerExecutes(d)
    \/ \E d \in Digests : ExecutedElsewhere(d)

TaskSpec == TaskInit /\ [][TaskNext]_vars

(***************************************************************************)
(* The same task together with the orchestrator that spawned it, for a     *)
(* checkpoint whose contents are not in the store: run_epoch's select      *)
(* (lines 143-154) matches only Some(Ok(checkpoint)) on the buffer, so the *)
(* JoinError of the panicked task is taken out of the buffer and dropped.  *)
(***************************************************************************)
MissingContentsInit == TaskInit /\ ~contents_stored

MissingContentsNext ==
    \/ GetContents
    \/ Retry
    \/ JoinError
    \/ Received
    \/ LoopTop
    \/ Completed
    \/ \E s \in SeqNums \ {TaskSeq} : ExecuteOk(s)
    \/ Sync

MissingContentsSpec == MissingContentsInit /\ [][MissingContentsNext]_vars

(***************************************************************************)
(* The execution task of checkpoint TaskSeq together with the run that     *)
(* spawned it: run_epoch takes the task's end from the buffer.             *)
(***************************************************************************)
TaskRunNext ==
    \/ TaskNext
    \/ Completed
    \/ JoinError
    \/ LoopTop

TaskRunSpec == TaskInit /\ [][TaskRunNext]_vars

(***************************************************************************)
(* The quorum driver: crates/sui-quorum-driver/src/lib.rs.                 *)
(* QuorumDriverHandler::execute_transaction drives a transaction through   *)
(* phase one (process_transaction: a certificate) and phase two            *)
(* (process_certificate: effects) against the AuthorityAggregator held in  *)
(* an ArcSwap, inline or through the task queue that task_queue_processor  *)
(* drains; every completed phase two is sent to the effects channel that   *)
(* next_effects reads.  Callers 1..MaxCallers submit one transaction each, *)
(* the transaction of caller c being c; aggregators are numbered, 0 being  *)
(* the one the handler was built with.                                     *)
(***************************************************************************)
\* The aggregator's phase one and phase two, when they succeed.
\* An aggregator that answers with the set current at the end of the call.
UsedAggregator_Current(loaded) == validators

\* The aggregator an operation runs against: the one validators.load()
\* returned when the operation started, lines 141-144 and 153-156.
UsedAggregator(loaded) == loaded

AggProcessTransaction(loaded, transaction) ==
    [tx |-> transaction, agg |-> UsedAggregator(loaded)]
AggProcessCertificate(loaded, certificate) ==
    [tx |-> certificate.tx, agg |-> UsedAggregator(loaded)]

\* A `?` that turns the aggregator's error into the driver's own error.
PropagatedError_AsCommunicationError(err) == QuorumDriverCommunicationError

\* The `?` of lines 201, 216 and 220: the error of the aggregator is the
\* error of execute_transaction (SuiError to SuiError).
PropagatedError(err) == err

\* A load that still returns the aggregator the handler was built with.
LoadValidators_Stale == InitialValidators

\* validators.load(), lines 141-143 and 153-155.
LoadValidators == validators

\* A queue whose send never fails.
QueueClosed_Never == FALSE

\* tokio::sync::mpsc::Sender::send on the task queue: it fails when the
\* receiver is gone (the processor died) and waits while the queue is full.
QueueClosed == processor.pc = "dead"
QueueHasRoom == Len(task_queue) < QueueCap

\* Sender::send on the effects channel: it fails when the receiver is
\* gone and waits while the channel is full.
EffectsHasRoom == Len(effects_channel.queue) < EffectsCap

\* The effects channel that drops what it is sent.
SendEffects_Dropped(channel, pair) == channel

\* The effects channel that takes every pair twice.
SendEffects_Twice(channel, pair) ==
    [channel EXCEPT !.queue = Append(Append(@, pair), pair)]

SendEffects(channel, pair) == [channel EXCEPT !.queue = Append(@, pair)]

\* process_certificate, lines 159-169, after the aggregator's phase two
\* succeeded: the pair is sent to the effects channel, an error of the send
\* is logged, and the pair is the result either way.
PublishEffects(who, pair) ==
    IF effects_channel.closed
    THEN /\ logged' = logged \cup {[by |-> who, tx |-> pair.certificate.tx,
                                    what |-> "effects send failed"]}
         /\ UNCHANGED effects_channel
    ELSE /\ EffectsHasRoom
         /\ effects_channel' = SendEffects(effects_channel, pair)
         /\ UNCHANGED logged

\* execute_transaction is called, lines 177-185; for the two waiting
\* request types process_transaction starts and loads the aggregator.
\* Callers are numbered in the order of their calls.
ExecuteTransaction(c, request_type) ==
    /\ callers[c].pc = "idle"
    /\ \A earlier \in 1..(c - 1) : callers[earlier].pc # "idle"
    /\ callers' = [callers EXCEPT
          ![c].request_type = request_type,
          ![c].pc = IF request_type = "ImmediateReturn"
                    THEN "send_transaction" ELSE "process_transaction",
          ![c].agg = IF request_type = "ImmediateReturn" THEN None ELSE LoadValidators]
    /\ UNCHANGED <<validators, task_queue, processor, effects_channel, updates,
                   delivered, logged>>
    /\ UNCHANGED <<outside_driver, reader_vars>>

\* ImmediateReturn, lines 186-196.
SendTransaction(c) ==
    /\ callers[c].pc = "send_transaction"
    /\ IF QueueClosed
       THEN /\ callers' = [callers EXCEPT ![c].pc = "returned",
                                         ![c].response = QuorumDriverCommunicationError]
            /\ UNCHANGED task_queue
       ELSE /\ QueueHasRoom
            /\ task_queue' = Append(task_queue, ProcessTransaction(c))
            /\ callers' = [callers EXCEPT ![c].pc = "returned",
                                         ![c].response = ImmediateReturn]
    /\ UNCHANGED <<validators, processor, effects_channel, updates, delivered, logged>>
    /\ UNCHANGED <<outside_driver, reader_vars>>

\* process_transaction of a waiting caller ends, lines 198-201 and 213-216:
\* an error is returned; with a certificate WaitForTxCert goes on to the
\* task queue and WaitForEffectsCert starts process_certificate, which
\* loads the aggregator.
CallerPhaseOne(c) ==
    /\ callers[c].pc = "process_transaction"
    /\ \/ callers' = [callers EXCEPT
             ![c].certificate = AggProcessTransaction(callers[c].agg, c),
             ![c].pc = IF callers[c].request_type = "WaitForTxCert"
                       THEN "send_certificate" ELSE "process_certificate",
             ![c].agg = IF callers[c].request_type = "WaitForTxCert"
                        THEN None ELSE LoadValidators]
       \/ callers' = [callers EXCEPT ![c].pc = "returned",
                                     ![c].agg = None,
                                     ![c].response = PropagatedError(AggregatorError)]
    /\ UNCHANGED <<validators, task_queue, processor, effects_channel, updates,
                   delivered, logged>>
    /\ UNCHANGED <<outside_driver, reader_vars>>

\* WaitForTxCert, lines 202-210.
SendCertificate(c) ==
    /\ callers[c].pc = "send_certificate"
    /\ IF QueueClosed
       THEN /\ callers' = [callers EXCEPT ![c].pc = "returned",
                                         ![c].response = QuorumDriverCommunicationError]
            /\ UNCHANGED task_queue
       ELSE /\ QueueHasRoom
            /\ task_queue' = Append(task_queue, ProcessCertificate(callers[c].certificate))
            /\ callers' = [callers EXCEPT ![c].pc = "returned",
                                         ![c].response = TxCert(callers[c].certificate)]
    /\ UNCHANGED <<validators, processor, effects_channel, updates, delivered, logged>>
    /\ UNCHANGED <<outside_driver, reader_vars>>

\* The aggregator's phase two of a WaitForEffectsCert caller ends, lines
\* 153-158 and 217-220.
CallerPhaseTwo(c) ==
    /\ callers[c].pc = "process_certificate"
    /\ \/ callers' = [callers EXCEPT
             ![c].effects = AggProcessCertificate(callers[c].agg, callers[c].certificate),
             ![c].agg = None,
             ![c].pc = "publish"]
       \/ callers' = [callers EXCEPT ![c].pc = "returned",
                                     ![c].agg = None,
                                     ![c].response = PropagatedError(AggregatorError)]
    /\ UNCHANGED <<validators, task_queue, processor, effects_channel, updates,
                   delivered, logged>>
    /\ UNCHANGED <<outside_driver, reader_vars>>

\* The rest of process_certificate and the return of WaitForEffectsCert,
\* lines 159-169 and 221.
CallerPublish(c) ==
    /\ callers[c].pc = "publish"
    /\ LET pair == [certificate |-> callers[c].certificate,
                    effects |-> callers[c].effects]
       IN  /\ PublishEffects(c, pair)
           /\ callers' = [callers EXCEPT ![c].pc = "returned",
                                         ![c].response = EffectsCert(pair)]
    /\ UNCHANGED <<validators, task_queue, processor, updates, delivered>>
    /\ UNCHANGED <<outside_driver, reader_vars>>

\* update_validators, lines 79-88: the new aggregator is the next number;
\* at most `limit` calls are followed.
UpdateValidatorsUpTo(limit) ==
    /\ updates.count < limit
    /\ LET new_validators == updates.count + 1
       IN  IF QueueClosed
           THEN /\ updates' = [updates EXCEPT !.count = new_validators,
                                              !.result = "QuorumDriverCommunicationError"]
                /\ UNCHANGED task_queue
           ELSE /\ QueueHasRoom
                /\ task_queue' = Append(task_queue, UpdateValidators(new_validators))
                /\ updates' = [count |-> new_validators, requested |-> new_validators,
                               result |-> "Ok"]
    /\ UNCHANGED <<validators, processor, effects_channel, callers, delivered, logged>>
    /\ UNCHANGED <<outside_driver, reader_vars>>

CallUpdateValidators == UpdateValidatorsUpTo(MaxUpdates)

\* A processor that applies the first update only.
ProcessorRecv_KeepsFirstUpdate ==
    /\ processor.pc = "recv"
    /\ task_queue # <<>>
    /\ LET queued == Head(task_queue)
       IN  \/ /\ queued.type = "ProcessTransaction"
              /\ processor' = [IdleProcessor EXCEPT !.pc = "process_transaction",
                                                    !.tx = queued.tx,
                                                    !.agg = LoadValidators]
              /\ UNCHANGED validators
           \/ /\ queued.type = "ProcessCertificate"
              /\ processor' = [IdleProcessor EXCEPT !.pc = "process_certificate",
                                                    !.tx = queued.tx,
                                                    !.certificate = queued.certificate,
                                                    !.agg = LoadValidators]
              /\ UNCHANGED validators
           \/ /\ queued.type = "UpdateValidators"
              /\ validators' = IF validators = InitialValidators
                               THEN queued.agg ELSE validators
              /\ UNCHANGED processor
    /\ task_queue' = Tail(task_queue)
    /\ UNCHANGED <<effects_channel, callers, updates, delivered, logged>>
    /\ UNCHANGED <<outside_driver, reader_vars>>

\* task_queue_processor takes the next task, lines 95-97; an
\* UpdateValidators task is done at once, lines 129-131; for the two other
\* tasks the phase starts and loads the aggregator.
ProcessorRecv ==
    /\ processor.pc = "recv"
    /\ task_queue # <<>>
    /\ LET queued == Head(task_queue)
       IN  \/ /\ queued.type = "ProcessTransaction"
              /\ processor' = [IdleProcessor EXCEPT !.pc = "process_transaction",
                                                    !.tx = queued.tx,
                                                    !.agg = LoadValidators]
              /\ UNCHANGED validators
           \/ /\ queued.type = "ProcessCertificate"
              /\ processor' = [IdleProcessor EXCEPT !.pc = "process_certificate",
                                                    !.tx = queued.tx,
                                                    !.certificate = queued.certificate,
                                                    !.agg = LoadValidators]
              /\ UNCHANGED validators
           \/ /\ queued.type = "UpdateValidators"
              /\ validators' = queued.agg
              /\ UNCHANGED processor
    /\ task_queue' = Tail(task_queue)
    /\ UNCHANGED <<effects_channel, callers, updates, delivered, logged>>
    /\ UNCHANGED <<outside_driver, reader_vars>>

\* A processor that queues a failed transaction again.
ProcessorPhaseOne_Requeues ==
    /\ processor.pc = "process_transaction"
    /\ \/ /\ processor' = [processor EXCEPT
                !.certificate = AggProcessTransaction(processor.agg, processor.tx),
                !.agg = None,
                !.pc = "send_certificate"]
          /\ UNCHANGED <<logged, task_queue>>
       \/ /\ processor' = IdleProcessor
          /\ QueueHasRoom
          /\ task_queue' = Append(task_queue, ProcessTransaction(processor.tx))
          /\ logged' = logged \cup {[by |-> 0, tx |-> processor.tx,
                                     what |-> "Transaction processing failed"]}
    /\ UNCHANGED <<validators, effects_channel, callers, updates, delivered>>
    /\ UNCHANGED <<outside_driver, reader_vars>>

\* A processor that ends its loop when a transaction fails.
ProcessorPhaseOne_StopsOnFailure ==
    /\ processor.pc = "process_transaction"
    /\ \/ /\ processor' = [processor EXCEPT
                !.certificate = AggProcessTransaction(processor.agg, processor.tx),
                !.agg = None,
                !.pc = "send_certificate"]
          /\ UNCHANGED logged
       \/ /\ processor' = [IdleProcessor EXCEPT !.pc = "dead"]
          /\ logged' = logged \cup {[by |-> 0, tx |-> processor.tx,
                                     what |-> "Transaction processing failed"]}
    /\ UNCHANGED <<validators, task_queue, effects_channel, callers, updates,
                   delivered>>
    /\ UNCHANGED <<outside_driver, reader_vars>>

\* process_transaction of a queued transaction ends, lines 104-118.
ProcessorPhaseOne ==
    /\ processor.pc = "process_transaction"
    /\ \/ /\ processor' = [processor EXCEPT
                !.certificate = AggProcessTransaction(processor.agg, processor.tx),
                !.agg = None,
                !.pc = "send_certificate"]
          /\ UNCHANGED logged
       \/ /\ processor' = IdleProcessor
          /\ logged' = logged \cup {[by |-> 0, tx |-> processor.tx,
                                     what |-> "Transaction processing failed"]}
    /\ UNCHANGED <<validators, task_queue, effects_channel, callers, updates,
                   delivered>>
    /\ UNCHANGED <<outside_driver, reader_vars>>

\* The processor queues the certificate of a queued transaction behind the
\* tasks already waiting, lines 106-113.  The processor owns the queue's
\* receiver: its own send cannot find the queue closed, it can only wait
\* for room.
ProcessorSendCertificate ==
    /\ processor.pc = "send_certificate"
    /\ QueueHasRoom
    /\ task_queue' = Append(task_queue, ProcessCertificate(processor.certificate))
    /\ processor' = IdleProcessor
    /\ UNCHANGED <<validators, effects_channel, callers, updates, delivered, logged>>
    /\ UNCHANGED <<outside_driver, reader_vars>>

\* A processor that queues a certificate again when its phase two failed.
ProcessorPhaseTwo_RetriesOnFailure ==
    /\ processor.pc = "process_certificate"
    /\ \/ /\ processor' = [processor EXCEPT
                !.effects = AggProcessCertificate(processor.agg, processor.certificate),
                !.agg = None,
                !.pc = "publish"]
          /\ UNCHANGED <<logged, task_queue>>
       \/ /\ processor' = IdleProcessor
          /\ QueueHasRoom
          /\ task_queue' = Append(task_queue, ProcessCertificate(processor.certificate))
          /\ logged' = logged \cup {[by |-> 0, tx |-> processor.tx,
                                     what |-> "Certificate processing failed"]}
    /\ UNCHANGED <<validators, effects_channel, callers, updates, delivered>>
    /\ UNCHANGED <<outside_driver, reader_vars>>

\* The aggregator's phase two of a queued certificate ends, lines 123-127
\* and 153-158.
ProcessorPhaseTwo ==
    /\ processor.pc = "process_certificate"
    /\ \/ /\ processor' = [processor EXCEPT
                !.effects = AggProcessCertificate(processor.agg, processor.certificate),
                !.agg = None,
                !.pc = "publish"]
          /\ UNCHANGED logged
       \/ /\ processor' = IdleProcessor
          /\ logged' = logged \cup {[by |-> 0, tx |-> processor.tx,
                                     what |-> "Certificate processing failed"]}
    /\ UNCHANGED <<validators, task_queue, effects_channel, callers, updates,
                   delivered>>
    /\ UNCHANGED <<outside_driver, reader_vars>>

\* The rest of process_certificate for a queued certificate, lines 159-169.
ProcessorPublish ==
    /\ processor.pc = "publish"
    /\ PublishEffects(0, [certificate |-> processor.certificate,
                          effects |-> processor.effects])
    /\ processor' = IdleProcessor
    /\ UNCHANGED <<validators, task_queue, callers, updates, delivered>>
    /\ UNCHANGED <<outside_driver, reader_vars>>

\* A receive that leaves the pair in the channel.
PopEffects_Keeps(channel) == channel

\* Receiver::recv takes the oldest pair out of the channel.
PopEffects(channel) == [channel EXCEPT !.queue = Tail(@)]

\* next_effects, lines 75-77.
NextEffects ==
    /\ effects_channel.queue # <<>>
    /\ delivered' = Append(delivered, Head(effects_channel.queue))
    /\ effects_channel' = PopEffects(effects_channel)
    /\ UNCHANGED <<validators, task_queue, processor, callers, updates,
                   logged>>
    /\ UNCHANGED <<outside_driver, reader_vars>>

\* The receiver of the effects channel goes away: nobody subscribes any
\* more, what was not read is dropped.
SubscriberGone ==
    /\ ~effects_channel.closed
    /\ effects_channel' = [queue |-> <<>>, closed |-> TRUE]
    /\ UNCHANGED <<validators, task_queue, processor, callers, updates, delivered, logged>>
    /\ UNCHANGED <<outside_driver, reader_vars>>

\* The background task dies: the receiver of the task queue is dropped
\* with the tasks still queued.
ProcessorDies ==
    /\ processor.pc # "dead"
    /\ processor' = [IdleProcessor EXCEPT !.pc = "dead"]
    /\ task_queue' = <<>>
    /\ UNCHANGED <<validators, effects_channel, callers, updates, delivered, logged>>
    /\ UNCHANGED <<outside_driver, reader_vars>>

DriverInit ==
    /\ Init
    /\ checkpoints = CheckpointsOf({})
    /\ cur_epoch = 0
    /\ max_concurrency = 0

DriverNext ==
    \/ \E c \in Callers, request_type \in RequestTypes : ExecuteTransaction(c, request_type)
    \/ \E c \in Callers : SendTransaction(c)
    \/ \E c \in Callers : CallerPhaseOne(c)
    \/ \E c \in Callers : SendCertificate(c)
    \/ \E c \in Callers : CallerPhaseTwo(c)
    \/ \E c \in Callers : CallerPublish(c)
    \/ CallUpdateValidators
    \/ ProcessorRecv
    \/ ProcessorPhaseOne
    \/ ProcessorSendCertificate
    \/ ProcessorPhaseTwo
    \/ ProcessorPublish
    \/ NextEffects
    \/ SubscriberGone
    \/ ProcessorDies

DriverSpec == DriverInit /\ [][DriverNext]_vars

(***************************************************************************)
(* The quorum driver while its background task and the receiver of the    *)
(* effects channel are alive.                                              *)
(***************************************************************************)
DriverWorks ==
    \/ \E c \in Callers, request_type \in RequestTypes : ExecuteTransaction(c, request_type)
    \/ \E c \in Callers : SendTransaction(c)
    \/ \E c \in Callers : CallerPhaseOne(c)
    \/ \E c \in Callers : SendCertificate(c)
    \/ \E c \in Callers : CallerPhaseTwo(c)
    \/ \E c \in Callers : CallerPublish(c)
    \/ ProcessorRecv
    \/ ProcessorPhaseOne
    \/ ProcessorSendCertificate
    \/ ProcessorPhaseTwo
    \/ ProcessorPublish

RunningDriverNext ==
    \/ DriverWorks
    \/ CallUpdateValidators
    \/ NextEffects

RunningDriverSpec == DriverInit /\ [][RunningDriverNext]_vars

(***************************************************************************)
(* The background path under repeated validator-set updates: callers that  *)
(* do not wait, update_validators called up to MaxSwaps times, the         *)
(* processor and the reader of the effects stream.                         *)
(***************************************************************************)
CallUpdateValidatorsRepeatedly == UpdateValidatorsUpTo(MaxSwaps)

UpdateNext ==
    \/ \E c \in Callers : ExecuteTransaction(c, "ImmediateReturn")
    \/ \E c \in Callers : SendTransaction(c)
    \/ CallUpdateValidatorsRepeatedly
    \/ ProcessorRecv
    \/ ProcessorPhaseOne
    \/ ProcessorSendCertificate
    \/ ProcessorPhaseTwo
    \/ ProcessorPublish
    \/ NextEffects

UpdateSpec == DriverInit /\ [][UpdateNext]_vars

(***************************************************************************)
(* Concurrent calls of next_effects, lines 75-77: a call waits for the     *)
(* effects_subscriber mutex and, holding it, for the next pair in the      *)
(* channel; the guard is dropped when the call returns.                    *)
(***************************************************************************)
CallNextEffects(r) ==
    /\ readers[r] = "idle"
    /\ readers' = [readers EXCEPT ![r] = "lock"]
    /\ UNCHANGED <<driver_vars, subscriber_lock, delivered_to, outside_driver>>

LockSubscriber(r) ==
    /\ readers[r] = "lock"
    /\ subscriber_lock = NoReader
    /\ subscriber_lock' = r
    /\ readers' = [readers EXCEPT ![r] = "recv"]
    /\ UNCHANGED <<driver_vars, delivered_to, outside_driver>>

RecvEffects(r) ==
    /\ readers[r] = "recv"
    /\ subscriber_lock = r
    /\ effects_channel.queue # <<>>
    /\ delivered' = Append(delivered, Head(effects_channel.queue))
    /\ delivered_to' = Append(delivered_to, r)
    /\ effects_channel' = PopEffects(effects_channel)
    /\ subscriber_lock' = NoReader
    /\ readers' = [readers EXCEPT ![r] = "idle"]
    /\ UNCHANGED <<validators, task_queue, processor, callers, updates, logged>>
    /\ UNCHANGED outside_driver

StreamNext ==
    \/ DriverWorks
    \/ \E r \in Readers : CallNextEffects(r)
    \/ \E r \in Readers : LockSubscriber(r)
    \/ \E r \in Readers : RecvEffects(r)

StreamSpec == DriverInit /\ [][StreamNext]_vars

(***************************************************************************)
(* A node that collects the signatures of one transaction under one        *)
(* committee: it appends signatures to a SignatureAggregator in any order, *)
(* also invalid ones, repeated ones and ones of names outside the          *)
(* committee, and reads the committee's thresholds.                        *)
(***************************************************************************)
\* One call of SignatureAggregator::append, lines 641-665.
AggregatorAppend(authority, valid) ==
    /\ LET returned == append(aggregator, authority, valid)
       IN  /\ aggregator' = returned.aggregator
           /\ outcome' = returned.result
    /\ UNCHANGED outside_aggregator

\* Calls of quorum_threshold and validity_threshold, lines 62-72.
ReadThresholds ==
    /\ outcome' = [kind |-> "Thresholds",
                   quorum |-> quorum_threshold(aggregator.committee),
                   validity |-> validity_threshold(aggregator.committee)]
    /\ UNCHANGED <<aggregator, outside_aggregator>>

\* Committee::new on any voting_rights and new_unsafe on that committee;
\* the executor and the quorum driver of the node are idle.
CommitteeInit ==
    /\ checkpoints = CheckpointsOf({})
    /\ highest_synced = None
    /\ highest_executed_checkpoint = None
    /\ cur_epoch = 0
    /\ max_concurrency = 0
    /\ pc = "idle"
    /\ highest_executed = None
    /\ next_to_schedule = 0
    /\ pending = <<>>
    /\ no_more_scheduling = FALSE
    /\ result = {}
    /\ task = NoTasks
    /\ mailbox = EmptyMailbox
    /\ checkpoint_exec_recv_channel_overflow = 0
    /\ checkpoint_exec_errors = 0
    /\ lost = {}
    /\ TaskNotSpawned
    /\ DriverNew
    /\ \E c \in Committees : aggregator = new_unsafe(c)
    /\ outcome = NoOutcome

CommitteeNext ==
    \/ \E authority \in AuthorityNames, valid \in BOOLEAN :
           AggregatorAppend(authority, valid)
    \/ ReadThresholds

CommitteeSpec == CommitteeInit /\ [][CommitteeNext]_vars

(***************************************************************************)
(* Properties.                                                             *)
(***************************************************************************)
Running == {"loop", "select", "select_recv"}

\* The checkpoints of epoch e that carry the next epoch's committee.
EpochLast(e) ==
    {s \in SeqNums : checkpoints[s].epoch = e
                     /\ checkpoints[s].next_epoch_committee # {}}

\* C1: every write of the persisted highest-executed watermark sets it to
\* the previous value + 1, or to 0 when nothing was executed before; it
\* never regresses and never skips, in whatever order the tasks end.
C1_WatermarkRatchetsByOne ==
    [][highest_executed_checkpoint' # highest_executed_checkpoint
        => highest_executed_checkpoint' =
              IF highest_executed_checkpoint = None
              THEN 0 ELSE highest_executed_checkpoint + 1]_vars

\* The watermark has been written twice and a later task has ended before
\* the head of the buffer.
C1_Witness ==
    /\ highest_executed_checkpoint >= 1
    /\ Len(pending) >= 2
    /\ task[pending[1]] = "running"
    /\ task[pending[2]] = "done"

\* C2: when the task of k+1 ends before the task of k, the watermark is
\* not advanced for k+1 until k has completed: only the head of the
\* pending buffer is ever ratcheted, and a finished entry behind the head
\* stays in the buffer, finished, until the process dies.
C2_OnlyHeadRatcheted ==
    [][/\ highest_executed_checkpoint' # highest_executed_checkpoint
          => /\ pending # <<>>
             /\ highest_executed_checkpoint' = Head(pending)
             /\ task[Head(pending)] = "done"
             /\ pending' = Tail(pending)
       /\ pc' # "idle"
          => \A i \in 2..Len(pending) :
                task[pending[i]] = "done"
                => /\ task'[pending[i]] = "done"
                   /\ \E j \in 1..Len(pending') : pending'[j] = pending[i]
      ]_vars

\* The orchestrator waits in the select, after a first ratchet, with the
\* head still running and the checkpoint behind it already finished.
C2_Witness ==
    /\ pc = "select"
    /\ highest_executed_checkpoint # None
    /\ Len(pending) >= 2
    /\ pending[1] = highest_executed_checkpoint + 1
    /\ task[pending[1]] = "running"
    /\ task[pending[2]] = "done"
    /\ mailbox.queue = <<>>

\* C3: the pending buffer never holds more entries than
\* checkpoint_execution_max_concurrency.
C3_AtMostConcurrency == Len(pending) <= max_concurrency

\* The buffer is full at a limit of at least 2 while more synced
\* checkpoints wait to be scheduled.
C3_Witness ==
    /\ pc = "select"
    /\ max_concurrency >= 2
    /\ Len(pending) = max_concurrency
    /\ next_to_schedule <= highest_synced
    /\ ~no_more_scheduling

\* C4: a run started after a crash resumes scheduling at the persisted
\* watermark + 1 (0 if nothing was executed) with an empty buffer, moves
\* the watermark only to checkpoints whose task ended in that very run
\* (so lost work is executed again), and returns with the watermark at
\* the last checkpoint of the epoch, as an uninterrupted run does.
C4_CrashRecovery ==
    /\ [][/\ (pc = "idle" /\ pc' = "loop")
             => /\ next_to_schedule' =
                      IF highest_executed_checkpoint = None
                      THEN 0 ELSE highest_executed_checkpoint + 1
                /\ pending' = <<>>
          /\ highest_executed_checkpoint' # highest_executed_checkpoint
             => task[highest_executed_checkpoint'] = "done"
         ]_vars
    /\ [](pc = "returned" => highest_executed_checkpoint \in EpochLast(cur_epoch))

\* A checkpoint whose finished task was lost in a crash has been executed
\* again by the restarted run and is the next one to be ratcheted.
C4_Witness ==
    /\ pc = "select"
    /\ pending # <<>>
    /\ Head(pending) \in lost
    /\ Head(pending) >= 1
    /\ task[Head(pending)] = "done"

\* C5: run_epoch returns only with an empty pending buffer and a highest
\* executed checkpoint that has the run's epoch and carries the next
\* epoch's committee.
C5_ReturnsOnlyAtEpochEnd ==
    pc = "returned"
    => /\ pending = <<>>
       /\ highest_executed # None
       /\ highest_executed = highest_executed_checkpoint
       /\ checkpoints[highest_executed].epoch = cur_epoch
       /\ checkpoints[highest_executed].next_epoch_committee # {}

\* The run of the second epoch has returned: it was started with the last
\* checkpoint of the first epoch as highest executed.
C5_Witness ==
    /\ pc = "returned"
    /\ cur_epoch = 1
    /\ highest_executed_checkpoint >= 2

\* C6: with a concurrency limit of at least 1, tasks that eventually
\* succeed and a notification after each sync, every synced checkpoint
\* of the run's epoch (every checkpoint the run has yet to execute up to
\* it being of that epoch) is eventually executed: the watermark reaches
\* it.
C6_Eligible(s) ==
    /\ max_concurrency >= 1
    /\ s <= highest_synced
    /\ \A t \in SeqNums :
          (highest_executed_checkpoint < t /\ t <= s) => checkpoints[t].epoch = cur_epoch

C6_SyncedEventuallyExecuted ==
    \A s \in SeqNums :
        [](C6_Eligible(s) => <>(highest_executed_checkpoint >= s))

\* Four checkpoints of the first epoch were synced and the watermark has
\* reached the last of them, with a lagged mailbox on the way.
C6_Witness ==
    /\ highest_synced >= 3
    /\ highest_executed_checkpoint = highest_synced
    /\ checkpoints[highest_synced].epoch = 0
    /\ cur_epoch = 0
    /\ checkpoint_exec_recv_channel_overflow >= 1

\* C7: when a checkpoint of the run's epoch carries a next-epoch
\* committee, no checkpoint with a larger sequence number gets a task in
\* that run.
C7_NothingScheduledPastEpochEnd ==
    pc # "idle"
    => \A s \in EpochLast(cur_epoch) :
          \A t \in SeqNums : t > s => task[t] = "none"

\* The run has stopped scheduling with room in the buffer and the first
\* checkpoint of the next epoch already synced.
C7_Witness ==
    /\ pc = "select"
    /\ no_more_scheduling
    /\ max_concurrency >= 2
    /\ Len(pending) < max_concurrency
    /\ pending # <<>>
    /\ next_to_schedule <= highest_synced
    /\ task[next_to_schedule] = "none"

\* C8: the committee run_epoch returns holds the next-epoch committee
\* embedded in the last executed checkpoint, which is of the run's epoch,
\* and its epoch is the run's epoch + 1.
C8_ReturnedCommittee ==
    pc = "returned"
    => /\ highest_executed_checkpoint # None
       /\ checkpoints[highest_executed_checkpoint].epoch = cur_epoch
       /\ \E c \in checkpoints[highest_executed_checkpoint].next_epoch_committee :
             result = {[epoch |-> cur_epoch + 1, voting_rights |-> c.authorities]}

\* The run of the second epoch has returned the committee of the third.
C8_Witness ==
    /\ pc = "returned"
    /\ \E c \in result : c.epoch = 2 /\ c.voting_rights = highest_executed_checkpoint

\* C9: handling Lagged(n) adds n to the overflow counter and leaves the
\* watermark, the cursor, the pending buffer and the tasks as they are;
\* whatever was counted, a run returns with the watermark at the last
\* checkpoint of its epoch.
C9_LaggedOnlyCounts ==
    /\ [][(pc \in {"select", "select_recv"} /\ mailbox.lagged > 0
           /\ mailbox'.lagged = 0 /\ pc' # "idle")
          => /\ checkpoint_exec_recv_channel_overflow' =
                   checkpoint_exec_recv_channel_overflow + mailbox.lagged
             /\ pc' = "loop"
             /\ UNCHANGED <<highest_executed_checkpoint, highest_executed,
                            next_to_schedule, pending, no_more_scheduling, task>>
         ]_vars
    /\ [](pc = "returned" /\ checkpoint_exec_recv_channel_overflow > 0
          => highest_executed_checkpoint \in EpochLast(cur_epoch))

\* A run has returned after a Lagged signal for two or more messages.
C9_Witness ==
    /\ pc = "returned"
    /\ checkpoint_exec_recv_channel_overflow >= 2

\* C10, as claimed: once the producer has closed the channel the run
\* neither moves the watermark nor returns a committee.
C10_ClosedStopsEverything ==
    [][mailbox.closed
       => /\ highest_executed_checkpoint' = highest_executed_checkpoint
          /\ pc' # "returned"]_vars

\* C10, amended: when the select takes the mailbox branch with the channel
\* closed and drained, the run panics, also with tasks pending; a
\* panicked run does nothing more until the process is started again.
C10_ClosedSignalPanics ==
    [][/\ (/\ pc \in {"select", "select_recv"}
           /\ mailbox.closed /\ mailbox.queue = <<>> /\ mailbox.lagged = 0
           /\ pc' \notin {pc, "idle", "select_recv"}
           /\ pending' = pending)
          => pc' = "panicked"
       /\ pc = "panicked"
          => \/ pc' = "idle"
             \/ /\ pc' = "panicked"
                /\ UNCHANGED <<highest_executed_checkpoint, pending, task, result>>
      ]_vars

\* The run has panicked on the closed channel with unfinished tasks in
\* the buffer.
C10_Witness ==
    /\ pc = "panicked"
    /\ mailbox.closed
    /\ cur_epoch = 0
    /\ pending # <<>>
    /\ \A s \in SeqNums : task[s] \in {"none", "running"}

(***************************************************************************)
(* C11: an execution task retries execute_checkpoint from the beginning    *)
(* after every error: the only step after a returned error is the restart, *)
(* which comes after the fixed delay, counts exactly one error and starts  *)
(* the attempt with fresh locals, so that the counter is always the number *)
(* of failed attempts and the time slept is the delay times that number;   *)
(* the restart is never refused (no retry limit); the task hands its       *)
(* checkpoint over (is done) only at the successful end of an attempt, and *)
(* a running task is never taken back: it stays running until it is done   *)
(* or has panicked.                                                        *)
(***************************************************************************)
C11_RetriesUntilSuccess ==
    /\ [][/\ step = "sleep" => step' \in {"sleep", "get_contents"}
          /\ (step = "sleep" /\ step' = "get_contents") =>
                /\ checkpoint_exec_errors' = checkpoint_exec_errors + 1
                /\ attempts' = attempts + 1
                /\ slept' = slept + RetryDelaySecs
                /\ lock_next' = 1 /\ locked' = <<>> /\ periods' = 1
          /\ checkpoint_exec_errors' # checkpoint_exec_errors =>
                step = "sleep" /\ step' = "get_contents"
          /\ step' = "sleep" /\ step # "sleep" =>
                step \in {"get_contents", "resolve", "locks", "insert_pending",
                          "enqueue", "wait"}
          /\ task[TaskSeq] = "running" =>
                /\ task'[TaskSeq] \in {"running", "done", "aborted"}
                /\ pending' = pending
          /\ task'[TaskSeq] = "done" /\ task[TaskSeq] # "done" =>
                /\ step = "wait" /\ step' = "returned"
                /\ all_tx_digests \subseteq executed_effects
       ]_vars
    /\ [](/\ attempts = checkpoint_exec_errors + 1
          /\ slept = checkpoint_exec_errors * RetryDelaySecs
          /\ step = "sleep" => ENABLED Retry
          /\ task[TaskSeq] = "done" <=> step = "returned"
          /\ task[TaskSeq] = "running" <=> step \notin {"returned", "panicked"})

\* The task succeeded at its third attempt, after two counted errors.
C11_Witness ==
    /\ step = "returned"
    /\ attempts = 3
    /\ checkpoint_exec_errors = 2
    /\ task[TaskSeq] = "done"

(***************************************************************************)
(* C12: a liveness timeout of the wait for effects is not an error: every  *)
(* pass through the timeout arm leaves the task waiting for the same       *)
(* digests, in the same attempt, with nothing enqueued again and the error *)
(* counter untouched.                                                      *)
(***************************************************************************)
C12_TimeoutKeepsWaiting ==
    [][EffectsTimeout =>
          /\ step' = "wait"
          /\ waiting_for' = waiting_for
          /\ task'[TaskSeq] = "running"
          /\ UNCHANGED <<attempts, enqueued, enqueue_calls, locked,
                         checkpoint_exec_errors, slept>>
      ]_vars

\* The task panicked in the timeout arm: contents and effects were in the
\* store, so that neither of the two earlier panics can have been met.
C12_Witness ==
    /\ step = "panicked"
    /\ contents_stored /\ effects_stored
    /\ task[TaskSeq] = "aborted"
    /\ checkpoint_exec_errors = 0

(***************************************************************************)
(* C13: missing checkpoint contents are fatal and not retryable: the task  *)
(* that met them is never run again, and once the orchestrator has taken   *)
(* that task's end out of the buffer it does nothing but terminate.        *)
(***************************************************************************)
C13_MissingContentsTerminates ==
    [][/\ task[TaskSeq] = "aborted" =>
             task'[TaskSeq] = "aborted" /\ attempts' = attempts
       /\ (task[TaskSeq] = "aborted" /\ \A i \in 1..Len(pending) : pending[i] # TaskSeq) =>
             \/ pc' = "panicked"
             \/ UNCHANGED <<pc, local_vars, task, highest_executed_checkpoint>>
      ]_vars

\* The run goes on after the panicked task's end was taken out of the
\* buffer: it is back at the top of its loop.
C13_Witness ==
    /\ ~contents_stored
    /\ task[TaskSeq] = "aborted"
    /\ pending = <<>>
    /\ pc = "loop"

(***************************************************************************)
(* The effects stream as its reader sees it: what next_effects returned,   *)
(* followed by what waits in the channel.                                  *)
(***************************************************************************)
Stream == delivered \o effects_channel.queue

PairsFor(stream, transaction) ==
    {i \in 1..Len(stream) : stream[i].certificate.tx = transaction}

Occurrences(stream, pair) == {i \in 1..Len(stream) : stream[i] = pair}

ResponsePair(c) ==
    [certificate |-> callers[c].response.certificate,
     effects |-> callers[c].response.effects]

InFlight == {"process_transaction", "process_certificate"}

BackgroundFailed(transaction) ==
    \E entry \in logged : /\ entry.by = 0
                          /\ entry.tx = transaction
                          /\ entry.what \in {"Transaction processing failed",
                                             "Certificate processing failed"}

(***************************************************************************)
(* C14: a WaitForEffectsCert call whose two phases succeeded returns the   *)
(* pair of the certificate and the effects the phases produced for the     *)
(* submitted transaction, and as long as the effects channel has a reader  *)
(* that very pair is on the effects stream exactly once; no pair for the   *)
(* transaction is on the stream before the call returns or when a phase    *)
(* failed.                                                                 *)
(***************************************************************************)
C14_EffectsCertReturnedAndPublishedOnce ==
    \A c \in Callers :
        callers[c].request_type = "WaitForEffectsCert" =>
            /\ Cardinality(PairsFor(Stream, c)) <= 1
            /\ callers[c].pc = "publish" =>
                  callers[c].certificate.tx = c /\ callers[c].effects.tx = c
            /\ callers[c].pc = "returned" =>
                  callers[c].response.kind \in {"EffectsCert", "AggregatorError"}
            /\ callers[c].response.kind = "EffectsCert" =>
                  /\ callers[c].response.certificate = callers[c].certificate
                  /\ callers[c].response.effects = callers[c].effects
                  /\ callers[c].response.certificate.tx = c
                  /\ callers[c].response.effects.tx = c
                  /\ ~effects_channel.closed =>
                        Cardinality(Occurrences(Stream, ResponsePair(c))) = 1
            /\ callers[c].response.kind # "EffectsCert" => PairsFor(Stream, c) = {}

\* A WaitForEffectsCert caller has its pair, and next_effects returned the
\* same pair.
C14_Witness ==
    \E c \in Callers :
        /\ callers[c].request_type = "WaitForEffectsCert"
        /\ callers[c].response.kind = "EffectsCert"
        /\ delivered = <<ResponsePair(c)>>

(***************************************************************************)
(* C15: a WaitForTxCert call returns the certificate of phase one in the   *)
(* step that queues ProcessCertificate for it, before any pair for the     *)
(* transaction is on the stream; the processor's phase two for a queued    *)
(* certificate, when it succeeded, puts exactly that certificate's pair on *)
(* the stream, once, and the stream never holds more than one pair for the *)
(* transaction.                                                            *)
(***************************************************************************)
C15_TxCertReturnedThenBackgroundPhaseTwo ==
    /\ [][/\ \A c \in Callers :
                (/\ callers[c].pc = "send_certificate"
                 /\ callers'[c].pc = "returned"
                 /\ processor.pc # "dead") =>
                    /\ callers'[c].response = TxCert(callers[c].certificate)
                    /\ callers[c].certificate.tx = c
                    /\ task_queue' = Append(task_queue,
                                            ProcessCertificate(callers[c].certificate))
                    /\ PairsFor(Stream', c) = {}
          /\ (/\ processor.pc = "publish"
              /\ processor'.pc = "recv"
              /\ ~effects_channel.closed) =>
                    effects_channel'.queue =
                        Append(effects_channel.queue,
                               [certificate |-> processor.certificate,
                                effects |-> processor.effects])
          /\ (processor.pc = "process_certificate" /\ processor'.pc = "publish") =>
                    /\ processor'.certificate = processor.certificate
                    /\ processor'.effects.tx = processor.certificate.tx
       ]_vars
    /\ [](\A c \in Callers :
            callers[c].request_type = "WaitForTxCert" =>
                /\ Cardinality(PairsFor(Stream, c)) <= 1
                /\ \A i \in PairsFor(Stream, c) :
                      /\ callers[c].response = TxCert(Stream[i].certificate)
                      /\ Stream[i].effects.tx = c)

\* A WaitForTxCert caller has its certificate, and next_effects returned
\* the pair the background phase two made of it.
C15_Witness ==
    \E c \in Callers :
        /\ callers[c].request_type = "WaitForTxCert"
        /\ callers[c].response.kind = "TxCert"
        /\ Len(delivered) = 1
        /\ delivered[1].certificate = callers[c].response.certificate
        /\ delivered[1].effects.tx = c

(***************************************************************************)
(* C16: an ImmediateReturn call returns the acknowledgement in the step    *)
(* that puts ProcessTransaction on the task queue, and what a call         *)
(* returned never changes afterwards; the processor queues the            *)
(* certificate of a queued transaction whose phase one succeeded and puts  *)
(* its pair on the stream when phase two succeeded, so that the stream     *)
(* then holds exactly one pair for the transaction, and never more than    *)
(* one; once a phase of it has failed in the background there is no pair   *)
(* for it on the stream and no work for it in the queue or in the          *)
(* processor.                                                              *)
(***************************************************************************)
C16_ImmediateReturnWhateverTheOutcome ==
    /\ [][\A c \in Callers :
             /\ (/\ callers[c].pc = "send_transaction"
                 /\ callers'[c].pc = "returned"
                 /\ processor.pc # "dead") =>
                    /\ callers'[c].response = ImmediateReturn
                    /\ task_queue' = Append(task_queue, ProcessTransaction(c))
             /\ callers[c].pc = "returned" => callers'[c] = callers[c]
             /\ (/\ processor.tx = c
                 /\ processor.pc = "process_transaction"
                 /\ processor'.pc = "send_certificate") =>
                    processor'.certificate.tx = c /\ processor'.tx = c
             /\ (/\ processor.tx = c
                 /\ processor.pc = "send_certificate"
                 /\ processor'.pc = "recv") =>
                    task_queue' = Append(task_queue,
                                         ProcessCertificate(processor.certificate))
             /\ (/\ processor.tx = c
                 /\ processor.pc = "publish"
                 /\ processor'.pc = "recv"
                 /\ ~effects_channel.closed) =>
                    /\ Cardinality(PairsFor(Stream', c)) = 1
                    /\ \A i \in PairsFor(Stream', c) :
                          Stream'[i].certificate = processor.certificate
       ]_vars
    /\ [](\A c \in Callers :
            callers[c].request_type = "ImmediateReturn" =>
                /\ Cardinality(PairsFor(Stream, c)) <= 1
                /\ PairsFor(Stream, c) # {} =>
                      callers[c].response = ImmediateReturn
                /\ BackgroundFailed(c) =>
                      /\ callers[c].response = ImmediateReturn
                      /\ PairsFor(Stream, c) = {}
                      /\ \A i \in 1..Len(task_queue) : task_queue[i].tx # c
                      /\ processor.tx # c)

\* Two ImmediateReturn callers were acknowledged; a phase of the first
\* one's transaction failed, the pair of the second one's was delivered.
C16_Witness ==
    /\ \A c \in {1, 2} : /\ callers[c].request_type = "ImmediateReturn"
                         /\ callers[c].response = ImmediateReturn
    /\ BackgroundFailed(1)
    /\ Len(delivered) = 1
    /\ delivered[1].certificate.tx = 2

\* The call of caller c starts a phase in this step.
PhaseStarts(c) ==
    /\ callers'[c].pc \in InFlight
    /\ callers'[c].pc # callers[c].pc

\* The processor starts a phase in this step.
ProcessorPhaseStarts ==
    /\ processor'.pc \in InFlight
    /\ processor.pc = "recv"

(***************************************************************************)
(* C17: a phase in flight keeps the aggregator it loaded when it started:  *)
(* a step that replaces the validator set leaves every call that is in a   *)
(* phase as it is, and the certificate or the effects a phase ends with    *)
(* come from the aggregator loaded at its start, whatever the set is by    *)
(* then.                                                                   *)
(***************************************************************************)
C17_InFlightKeepsLoadedAggregator ==
    [][/\ \A c \in Callers :
             /\ PhaseStarts(c) => callers'[c].agg = validators
             /\ (callers[c].pc \in InFlight /\ validators' # validators) =>
                   callers'[c] = callers[c]
             /\ (callers[c].pc \in InFlight /\ callers'[c].pc = callers[c].pc) =>
                   callers'[c].agg = callers[c].agg
             /\ (/\ callers[c].pc = "process_transaction"
                 /\ callers'[c].pc \in {"send_certificate", "process_certificate"}) =>
                   callers'[c].certificate = [tx |-> c, agg |-> callers[c].agg]
             /\ (/\ callers[c].pc = "process_certificate"
                 /\ callers'[c].pc = "publish") =>
                   callers'[c].effects = [tx |-> c, agg |-> callers[c].agg]
       /\ ProcessorPhaseStarts => processor'.agg = validators
       /\ (processor.pc \in InFlight /\ processor'.pc = processor.pc) =>
             processor' = processor /\ validators' = validators
       /\ (/\ processor.pc = "process_transaction"
           /\ processor'.pc = "send_certificate") =>
             processor'.certificate.agg = processor.agg
       /\ (/\ processor.pc = "process_certificate"
           /\ processor'.pc = "publish") =>
             processor'.effects.agg = processor.agg
      ]_vars

\* Phase one of a WaitForEffectsCert call started with aggregator 0 and
\* ended after the set had been replaced: phase two of the same call loaded
\* aggregator 1 in the step that ended phase one.
C17_Witness ==
    \E c \in Callers :
        /\ callers[c].response.kind = "EffectsCert"
        /\ callers[c].response.certificate.agg = 0
        /\ callers[c].response.effects.agg = 1

(***************************************************************************)
(* C18 as stated: once update_validators(new) has returned, every phase    *)
(* that starts uses the aggregator of the latest such call.                *)
(***************************************************************************)
C18_StartsUseRequestedSet ==
    [][/\ \A c \in Callers : PhaseStarts(c) => callers'[c].agg = updates.requested
       /\ ProcessorPhaseStarts => processor'.agg = updates.requested
      ]_vars

(***************************************************************************)
(* C18, amended: update_validators only queues the new aggregator; the set *)
(* is replaced when the processor takes that task from the head of the     *)
(* queue, and by nothing else.  Every phase that starts, inline or in the  *)
(* processor, uses the aggregator of the latest task so taken (the one the *)
(* handler was built with when none was), which is never newer than the    *)
(* latest one requested.                                                   *)
(***************************************************************************)
C18_StartsUseAppliedSet ==
    /\ [][/\ \A c \in Callers : PhaseStarts(c) => callers'[c].agg = validators
          /\ ProcessorPhaseStarts => processor'.agg = validators
          /\ validators' # validators =>
                /\ processor.pc = "recv"
                /\ task_queue # <<>>
                /\ Head(task_queue) = UpdateValidators(validators')
                /\ task_queue' = Tail(task_queue)
       ]_vars
    /\ [](validators <= updates.requested)

\* A call started a phase with the new aggregator after the processor had
\* applied the update.
C18_Witness ==
    /\ updates.requested = 1
    /\ validators = 1
    /\ \E c \in Callers : callers[c].pc \in InFlight /\ callers[c].agg = 1

(***************************************************************************)
(* C19: a failure to publish a completed phase two (no subscriber, or the  *)
(* channel is full) never withholds the result: a call that has the        *)
(* effects of phase two can always go on to return the pair.               *)
(***************************************************************************)
C19_PublishNeverWithholds ==
    \A c \in Callers : callers[c].pc = "publish" => ENABLED CallerPublish(c)

\* A call has the effects of phase two while the effects channel, which
\* still has its receiver, is full.
C19_Witness ==
    \E c \in Callers :
        /\ callers[c].pc = "publish"
        /\ ~effects_channel.closed
        /\ Len(effects_channel.queue) = EffectsCap

(***************************************************************************)
(* C20: a call returns QuorumDriverCommunicationError exactly when it      *)
(* comes to its send on the task queue after the processor, and with it    *)
(* the queue's receiver, is gone: ImmediateReturn and update_validators    *)
(* then return the error, WaitForTxCert returns it although phase one gave *)
(* it a certificate, and nothing is queued; WaitForEffectsCert never       *)
(* returns it.                                                             *)
(***************************************************************************)
C20_CommunicationErrorIffQueueClosed ==
    /\ [][/\ \A c \in Callers :
                (callers'[c].pc = "returned" /\ callers[c].pc # "returned") =>
                    /\ callers'[c].response = QuorumDriverCommunicationError <=>
                          /\ callers[c].pc \in {"send_transaction", "send_certificate"}
                          /\ processor.pc = "dead"
                    /\ callers'[c].response = QuorumDriverCommunicationError =>
                          /\ task_queue' = task_queue
                          /\ callers[c].request_type = "WaitForTxCert" =>
                                callers[c].certificate.tx = c
          /\ updates'.count # updates.count =>
                /\ updates'.result = "QuorumDriverCommunicationError" <=>
                      processor.pc = "dead"
                /\ updates'.result = "QuorumDriverCommunicationError" =>
                      task_queue' = task_queue /\ updates'.requested = updates.requested
                /\ updates'.result \in {"Ok", "QuorumDriverCommunicationError"}
       ]_vars
    /\ [](/\ \A c \in Callers :
                callers[c].response = QuorumDriverCommunicationError =>
                    /\ callers[c].request_type \in {"ImmediateReturn", "WaitForTxCert"}
                    /\ processor.pc = "dead"
          /\ processor.pc = "dead" => task_queue = <<>>)

\* WaitForTxCert returned the error with the certificate of phase one in
\* hand, and update_validators returned it too.
C20_Witness ==
    /\ updates.result = "QuorumDriverCommunicationError"
    /\ \E c \in Callers :
          /\ callers[c].request_type = "WaitForTxCert"
          /\ callers[c].response = QuorumDriverCommunicationError
          /\ callers[c].certificate.tx = c

(***************************************************************************)
(* C21: a WaitForTxCert or WaitForEffectsCert call whose phase one or      *)
(* phase two failed at the aggregator returns the aggregator's error as it *)
(* is; a call whose phase one failed has started no phase two, and there   *)
(* is no task for its transaction in the queue or in the processor and no  *)
(* pair for it on the stream; a call whose phase two failed has no pair on *)
(* the stream either.                                                      *)
(***************************************************************************)
C21_AggregatorErrorReturnedUnchanged ==
    \A c \in Callers :
        callers[c].request_type \in {"WaitForTxCert", "WaitForEffectsCert"} =>
            /\ callers[c].pc = "returned" =>
                  \/ callers[c].response = AggregatorError
                  \/ callers[c].response.kind \in {"TxCert", "EffectsCert"}
                  \/ /\ callers[c].response = QuorumDriverCommunicationError
                     /\ processor.pc = "dead"
            /\ callers[c].certificate = NoCertificate =>
                  /\ callers[c].pc \in {"process_transaction", "returned"}
                  /\ callers[c].pc = "returned" =>
                        callers[c].response = AggregatorError
                  /\ callers[c].effects = NoEffects
                  /\ \A i \in 1..Len(task_queue) : task_queue[i].tx # c
                  /\ processor.tx # c
                  /\ PairsFor(Stream, c) = {}
            /\ (/\ callers[c].certificate # NoCertificate
                /\ callers[c].effects = NoEffects
                /\ callers[c].request_type = "WaitForEffectsCert") =>
                  /\ callers[c].pc \in {"process_certificate", "returned"}
                  /\ callers[c].pc = "returned" =>
                        callers[c].response = AggregatorError
                  /\ PairsFor(Stream, c) = {}

\* Phase one of a WaitForTxCert call failed, and phase two of a
\* WaitForEffectsCert call failed after its phase one had succeeded.
C21_Witness ==
    \E c, d \in Callers :
        /\ callers[c].request_type = "WaitForTxCert"
        /\ callers[c].response = AggregatorError
        /\ callers[c].certificate = NoCertificate
        /\ callers[d].request_type = "WaitForEffectsCert"
        /\ callers[d].response = AggregatorError
        /\ callers[d].certificate.tx = d
IsPrefix(a, b) == Len(a) <= Len(b) /\ SubSeq(b, 1, Len(a)) = a

Queued(c, type) ==
    \E i \in 1..Len(task_queue) : /\ task_queue[i].type = type
                                  /\ task_queue[i].tx = c

WithProcessor(c, pcs) == processor.pc \in pcs /\ processor.tx = c

CallerFailed(c) ==
    callers[c].pc = "returned" /\ callers[c].response = AggregatorError

ItemState(c) ==
    IF callers[c].pc = "idle" THEN "NotSubmitted"
    ELSE IF PairsFor(Stream, c) # {} THEN "Published"
    ELSE IF CallerFailed(c) \/ BackgroundFailed(c) THEN "Failed"
    ELSE IF \/ callers[c].pc = "send_transaction"
            \/ Queued(c, "ProcessTransaction") THEN "Received"
    ELSE IF \/ callers[c].pc = "process_transaction"
            \/ WithProcessor(c, {"process_transaction"}) THEN "AwaitingCertificate"
    ELSE IF \/ callers[c].pc \in {"send_certificate", "process_certificate", "publish"}
            \/ Queued(c, "ProcessCertificate")
            \/ WithProcessor(c, {"send_certificate", "process_certificate", "publish"})
         THEN "AwaitingEffects"
    ELSE "Lost"

\* The places where work on the item of caller c is still going on.
Places(c) ==
    {i \in 1..Len(task_queue) : task_queue[i].type # "UpdateValidators"
                                 /\ task_queue[i].tx = c}
    \cup (IF WithProcessor(c, {"process_transaction", "send_certificate",
                               "process_certificate", "publish"})
          THEN {0} ELSE {})
    \cup (IF callers[c].pc \in {"idle", "returned"} THEN {} ELSE {-1})

ItemSteps ==
    {<<"NotSubmitted", "Received">>, <<"NotSubmitted", "AwaitingCertificate">>,
     <<"Received", "AwaitingCertificate">>,
     <<"AwaitingCertificate", "AwaitingEffects">>, <<"AwaitingCertificate", "Failed">>,
     <<"AwaitingEffects", "Published">>, <<"AwaitingEffects", "Failed">>}

C24_RatchetAssertionHolds ==
    pc = "select" =>
        \A i \in FuturesOrderedNext(pending, task) :
            task[pending[i]] = "done" =>
                RatchetAssertion(highest_executed_checkpoint, pending[i])

\* The task of checkpoint 0 ended with a JoinError that the select dropped,
\* and the completion of checkpoint 1 is the next one to be taken.
C24_Witness ==
    /\ pc = "select"
    /\ highest_executed_checkpoint = None
    /\ task[0] = "aborted"
    /\ pending = <<1>>
    /\ task[1] = "done"
(***************************************************************************)
(* C25: whenever the most recently completed checkpoint of a run is the    *)
(* checkpoint of the run's epoch that carries the next epoch's committee,  *)
(* the pending buffer is empty, so the assertion at the top of the loop    *)
(* (lines 126-129) holds whenever it is evaluated.                         *)
(***************************************************************************)
C25_PendingEmptyAtEpochEnd ==
    (/\ pc # "idle"
     /\ check_epoch_last_checkpoint(cur_epoch, highest_executed) # {})
    => pending = <<>>

\* The last checkpoint of the epoch has just been completed by this run,
\* with room for two tasks and later checkpoints already synced.
C25_Witness ==
    /\ pc = "loop"
    /\ highest_executed \in EpochLast(cur_epoch)
    /\ task[highest_executed] = "done"
    /\ highest_executed >= 1
    /\ max_concurrency >= 2
    /\ highest_synced > highest_executed
    /\ pending = <<>>
(***************************************************************************)
(* C26: as long as no execution task has ended abnormally, in every state  *)
(* of the loop the pending buffer is the ascending sequence of the         *)
(* checkpoints highest_executed + 1 .. next_to_schedule - 1 (from 0 when   *)
(* nothing was executed).                                                  *)
(***************************************************************************)
C26_PendingIsTheScheduledRange ==
    (/\ pc \in Running
     /\ \A s \in SeqNums : task[s] # "aborted")
    => LET first == FirstToSchedule(highest_executed)
       IN  /\ first + Len(pending) = next_to_schedule
           /\ pending = [i \in 1..(next_to_schedule - first) |-> first + i - 1]

\* Checkpoint 0 was completed and the tasks of checkpoints 1 and 2 are in
\* the buffer, the later one already done.
C26_Witness ==
    /\ pc = "select"
    /\ highest_executed = 0
    /\ pending = <<1, 2>>
    /\ next_to_schedule = 3
    /\ task[2] = "done"
    /\ task[1] = "running"
(***************************************************************************)
(* C27: a run starts with no task and its cursor just above the persisted  *)
(* watermark (at 0 when there is none); within the run the cursor never    *)
(* decreases, the checkpoints that get a task in a step are exactly those  *)
(* the cursor passes in that step, each is pushed to the buffer once, and  *)
(* a checkpoint that has a task never gets another one.  Hence every       *)
(* checkpoint with a task is below the cursor and occurs at most once in   *)
(* the buffer.                                                             *)
(***************************************************************************)
C27_CursorCountsSpawnedTasks ==
    /\ [][/\ (pc = "idle" /\ pc' # "idle") =>
                /\ task' = NoTasks
                /\ pending' = <<>>
                /\ next_to_schedule' = IF highest_executed_checkpoint = None
                                       THEN 0 ELSE highest_executed_checkpoint + 1
          /\ (pc \in Running /\ pc' # "idle") =>
                /\ next_to_schedule' >= next_to_schedule
                /\ {s \in SeqNums : task[s] = "none" /\ task'[s] # "none"}
                      = next_to_schedule..(next_to_schedule' - 1)
                /\ \A s \in SeqNums : task[s] # "none" => task'[s] # "none"
                /\ next_to_schedule' > next_to_schedule =>
                      pending' = pending \o
                          [i \in 1..(next_to_schedule' - next_to_schedule)
                              |-> next_to_schedule + i - 1]]_vars
    /\ [](pc \in Running =>
            /\ \A s \in SeqNums : task[s] # "none" => s < next_to_schedule
            /\ \A i, j \in 1..Len(pending) : pending[i] = pending[j] => i = j)

\* A run that started with the watermark at checkpoint 0 has given tasks
\* to the checkpoints 1 and 2 and to no other.
C27_Witness ==
    /\ pc = "select"
    /\ highest_executed_checkpoint = 0
    /\ task[0] = "none"
    /\ task[1] = "running"
    /\ task[2] = "running"
    /\ next_to_schedule = 3
    /\ pending = <<1, 2>>
(***************************************************************************)
(* C28: the run stops scheduling exactly when the scheduler, with room in  *)
(* the buffer, finds that the next synced checkpoint has an epoch greater  *)
(* than the run's epoch; a full buffer or the end of the synced            *)
(* checkpoints does not stop it.  Once stopped, the run gives no task to   *)
(* any further checkpoint and does not move its cursor, and the end of     *)
(* the buffer's head can still be taken and ratcheted.                     *)
(***************************************************************************)
SchedulerMeetsLaterEpoch ==
    /\ highest_synced # None
    /\ next_to_schedule <= highest_synced
    /\ Len(pending) < max_concurrency
    /\ checkpoints[next_to_schedule].epoch > cur_epoch

C28_StopsSchedulingAtLaterEpochOnly ==
    /\ [][/\ (pc = "loop" /\ pc' = "select") =>
                (no_more_scheduling' <=> (no_more_scheduling \/ SchedulerMeetsLaterEpoch'))
          /\ (pc \in Running /\ pc' # "idle" /\ ~(pc = "loop" /\ pc' = "select")) =>
                no_more_scheduling' = no_more_scheduling
          /\ (pc \in Running /\ no_more_scheduling /\ pc' # "idle") =>
                /\ no_more_scheduling'
                /\ next_to_schedule' = next_to_schedule
                /\ \A s \in SeqNums : task[s] = "none" => task'[s] = "none"]_vars
    /\ [](/\ (pc \in Running /\ no_more_scheduling) =>
                /\ next_to_schedule <= highest_synced
                /\ checkpoints[next_to_schedule].epoch > cur_epoch
          /\ (/\ pc = "select"
              /\ no_more_scheduling
              /\ pending # <<>>
              /\ task[Head(pending)] = "done") => ENABLED Completed)

\* The run stopped scheduling at checkpoint 2 of the next epoch, which is
\* synced, and ratcheted checkpoint 1 afterwards.
C28_Witness ==
    /\ pc = "loop"
    /\ no_more_scheduling
    /\ highest_executed = 1
    /\ highest_executed_checkpoint = 1
    /\ pending = <<>>
    /\ next_to_schedule = 2
    /\ highest_synced >= 2
    /\ task[2] = "none"
(***************************************************************************)
(* C29: every checkpoint that has a task in a run has the run's epoch;     *)
(* when the scheduler, with room in the buffer, finds that the next        *)
(* synced checkpoint has an earlier epoch than the run, the assertion of   *)
(* schedule_checkpoint fails: the run ends in a panic and no task is       *)
(* spawned.                                                                *)
(***************************************************************************)
SchedulerMeetsEarlierEpoch ==
    /\ pc = "loop"
    /\ check_epoch_last_checkpoint(cur_epoch, highest_executed) = {}
    /\ ~no_more_scheduling
    /\ highest_synced # None
    /\ next_to_schedule <= highest_synced
    /\ Len(pending) < max_concurrency
    /\ checkpoints[next_to_schedule].epoch < cur_epoch

C29_SpawnedCheckpointsHaveRunEpoch ==
    /\ [][/\ SchedulerMeetsEarlierEpoch /\ pc' # "loop" =>
                /\ pc' \in {"panicked", "idle"}
                /\ \A s \in SeqNums : task'[s] = "none"
          /\ \A s \in SeqNums :
                (pc # "idle" /\ task[s] = "none" /\ task'[s] # "none") =>
                    checkpoints[s].epoch = cur_epoch]_vars
    /\ [](pc # "idle" =>
            \A s \in SeqNums : task[s] # "none" => checkpoints[s].epoch = cur_epoch)

\* A node whose epoch store is at epoch 1 while its checkpoint store has
\* executed nothing: the run met checkpoint 0 of epoch 0 and panicked.
C29_Witness ==
    /\ pc = "panicked"
    /\ cur_epoch = 1
    /\ highest_executed_checkpoint = None
    /\ highest_synced # None
    /\ checkpoints[0].epoch = 0
    /\ max_concurrency >= 1
    /\ next_to_schedule = 0
    /\ task = NoTasks
    /\ ~mailbox.closed
(***************************************************************************)
(* C30: within one attempt the batch (the synced transactions of the       *)
(* checkpoint) is handed to the TransactionManager only after the shared   *)
(* locks of all its shared-object transactions were acquired, one after    *)
(* the other in checkpoint order; an attempt in which an acquisition       *)
(* fails goes to the retry delay without having enqueued anything.         *)
(***************************************************************************)
SharedSynced == SelectSeq(synced_txns, LAMBDA d : txes[d].shared)

BeforeEnqueue == {"get_contents", "resolve", "locks", "insert_pending", "enqueue"}

C30_LocksBeforeEnqueue ==
    /\ [][/\ enqueue_calls' # enqueue_calls =>
                /\ step = "enqueue" /\ step' = "wait"
                /\ attempts' = attempts
                /\ enqueue_calls' = enqueue_calls + 1
                /\ locked = SharedSynced
                /\ enqueued' = enqueued \cup {synced_txns[i] : i \in 1..Len(synced_txns)}
          /\ enqueued' # enqueued => enqueue_calls' # enqueue_calls
          /\ (step = "locks" /\ step' \notin {"locks", "insert_pending"}) =>
                /\ step' = "sleep"
                /\ enqueue_calls' = enqueue_calls
          /\ (step = "sleep" /\ step' # "sleep") =>
                /\ step' = "get_contents"
                /\ attempts' = attempts + 1
                /\ locked' = <<>>
          /\ attempts' # attempts => step = "sleep"]_vars
    /\ [](/\ IsPrefix(locked, SharedSynced)
          /\ step \in {"insert_pending", "enqueue", "wait", "returned"} =>
                locked = SharedSynced
          /\ step \in BeforeEnqueue => enqueue_calls <= attempts - 1
          /\ enqueue_calls <= attempts)

\* The second attempt has taken the locks of both transactions, in their
\* order in the checkpoint, and has handed the batch over; the first
\* attempt ended before it enqueued anything.
C30_Witness ==
    /\ step = "wait"
    /\ attempts = 2
    /\ enqueue_calls = 1
    /\ locked = <<1, 2>>
    /\ enqueued = {1, 2}

(***************************************************************************)
(* C31: the transactions of the checkpoint are recorded as executed, with  *)
(* the run's epoch and the checkpoint's sequence number, only once effects *)
(* exist for all digests of the checkpoint; the task is done only with     *)
(* that record made, and so the watermark is at the checkpoint only with   *)
(* that record made.                                                       *)
(***************************************************************************)
RecordOfCheckpoint ==
    [digest : all_tx_digests, epoch : {cur_epoch}, seq : {TaskSeq}]

C31_RecordedBeforeDoneAndRatcheted ==
    /\ executed_in # {} =>
          /\ all_tx_digests \subseteq executed_effects
          /\ executed_in = RecordOfCheckpoint
    /\ task[TaskSeq] = "done" => executed_in = RecordOfCheckpoint
    /\ step = "returned" <=> task[TaskSeq] = "done"
    /\ highest_executed_checkpoint = TaskSeq =>
          /\ task[TaskSeq] = "done"
          /\ executed_in = RecordOfCheckpoint

\* The second attempt of the task made the record and the run advanced the
\* watermark to the checkpoint.
C31_Witness ==
    /\ highest_executed_checkpoint = TaskSeq
    /\ attempts = 2
    /\ executed_in = RecordOfCheckpoint
    /\ all_tx_digests \subseteq executed_effects
    /\ pc = "loop"

(***************************************************************************)
(* C32: when the task of checkpoint s has ended with a JoinError, the      *)
(* select takes its entry out of the buffer and goes on waiting for the    *)
(* mailbox alone, the watermark stays below s for the rest of the run,     *)
(* and the ratchet assertion is false for every later checkpoint whose     *)
(* completion is in the buffer.                                            *)
(***************************************************************************)
C32_AbortedTaskBlocksWatermark ==
    pc # "idle" =>
        /\ \A s \in SeqNums :
              task[s] = "aborted" =>
                  /\ highest_executed_checkpoint < s
                  /\ highest_executed < s
                  /\ \A i \in 1..Len(pending) :
                        (pending[i] > s /\ task[pending[i]] = "done") =>
                            ~RatchetAssertion(highest_executed_checkpoint, pending[i])
        /\ pc = "select_recv" =>
              \E s \in SeqNums :
                  /\ task[s] = "aborted"
                  /\ \A i \in 1..Len(pending) : pending[i] > s

\* The task of checkpoint 0 was aborted and taken out of the buffer, and
\* the completion of checkpoint 1 has failed the ratchet assertion.
C32_Witness ==
    /\ pc = "panicked"
    /\ task[0] = "aborted"
    /\ task[1] = "done"
    /\ pending = <<>>
    /\ highest_executed_checkpoint = None
    /\ next_to_schedule = 2
    /\ ~mailbox.closed

(***************************************************************************)
(* C33: a digest whose transaction is not in the synced-transactions       *)
(* table does not make the attempt fail (the step that resolves the        *)
(* transactions can go on to the locks) and is never handed to the         *)
(* TransactionManager; the task waits for the effects of every digest of   *)
(* the checkpoint and is done only when effects exist for all of them.     *)
(***************************************************************************)
C33_SkippedDigestsStillAwaited ==
    /\ enqueued \subseteq {d \in Digests : txes[d].synced}
    /\ enqueue_calls > 0 => enqueued = {d \in Digests : txes[d].synced}
    /\ step = "wait" => waiting_for = Digests
    /\ task[TaskSeq] = "done" => Digests \subseteq executed_effects
    /\ (step = "resolve" /\ effects_stored) =>
          ENABLED (ResolveTransactions /\ step' = "locks")

\* The first attempt is done without an error although the transaction of
\* digest 1 was not in the table: only digest 2 was enqueued, and effects
\* exist for both.
C33_Witness ==
    /\ step = "returned"
    /\ task[TaskSeq] = "done"
    /\ attempts = 1
    /\ checkpoint_exec_errors = 0
    /\ ~txes[1].synced
    /\ txes[2].synced
    /\ enqueued = {2}
    /\ executed_effects = {1, 2}

(***************************************************************************)
(* C34: an item accepted on the ImmediateReturn path is always processed   *)
(* to its end, whatever the occupancy of the task queue: as long as such   *)
(* an item is neither Published nor Failed, the processor or the reader    *)
(* of the effects stream has a step to take.                               *)
(***************************************************************************)
BackgroundCanStep ==
    \/ ENABLED ProcessorRecv
    \/ ENABLED ProcessorPhaseOne
    \/ ENABLED ProcessorSendCertificate
    \/ ENABLED ProcessorPhaseTwo
    \/ ENABLED ProcessorPublish
    \/ ENABLED NextEffects

C34_AcceptedItemIsProcessed ==
    \A c \in Callers :
        (/\ callers[c].pc = "returned"
         /\ callers[c].response = ImmediateReturn
         /\ ItemState(c) \notin {"Published", "Failed"})
        => BackgroundCanStep

\* The processor holds the certificate of transaction 1 and waits for room
\* in the task queue, which the accepted transaction 2 fills and which
\* only the processor itself empties; nothing is left on the effects
\* stream to read.
C34_Witness ==
    /\ callers[1].response = ImmediateReturn
    /\ callers[2].response = ImmediateReturn
    /\ processor.pc = "send_certificate"
    /\ processor.tx = 1
    /\ task_queue = <<ProcessTransaction(2)>>
    /\ effects_channel.queue = <<>>
    /\ ~BackgroundCanStep

(***************************************************************************)
(* C35: when a phase of a background item fails, the processor logs the    *)
(* failure, leaves the queue as it is and is back at its recv; at its recv *)
(* with a task waiting it can take one, and the task it takes is the head  *)
(* of the queue.                                                           *)
(***************************************************************************)
BackgroundFailures ==
    {entry \in logged : /\ entry.by = 0
                         /\ entry.what \in {"Transaction processing failed",
                                            "Certificate processing failed"}}

QueuedUpdates == SelectSeq(task_queue, LAMBDA queued : queued.type = "UpdateValidators")

TotalVotes == aggregator.committee.total_votes

\* The votes the authorities of `names` hold together in the committee.
VotesOf(names) ==
    SumVotes([a \in AuthorityNames |-> weight(aggregator.committee, a)], names)

Reaching(threshold) ==
    {S \in SUBSET Authorities : VotesOf(S) >= threshold}

\* C38: for every committee with total weight N >= 1, two sets of
\* authorities that each reach quorum_threshold overlap in authorities of
\* total weight at least validity_threshold, and
\* 2 * quorum_threshold - N >= validity_threshold.
C38_QuorumsOverlapInValidity ==
    (outcome.kind = "Thresholds" /\ TotalVotes >= 1) =>
        /\ 2 * outcome.quorum - TotalVotes >= outcome.validity
        /\ \A A \in Reaching(outcome.quorum), B \in Reaching(outcome.quorum) :
               VotesOf(A \cap B) >= outcome.validity

\* The thresholds of a committee have been read in which two different
\* quorums overlap in exactly validity_threshold votes.
C38_Witness ==
    /\ outcome.kind = "Thresholds"
    /\ TotalVotes >= 1
    /\ \E A \in Reaching(outcome.quorum), B \in Reaching(outcome.quorum) :
           /\ A # B
           /\ VotesOf(A \cap B) = outcome.validity

\* The authorities of the signatures of a (partial) certificate.
Signers(signatures) == {signatures[i] : i \in 1..Len(signatures)}

\* The last call was an append.
Appended == outcome.kind \in {"Some", "None", "Err"}

\* C39 (as amended): the aggregator's weight is the accumulated weight of
\* the distinct authorities appended so far; an append that is accepted
\* returns a certificate exactly when that weight reaches quorum_threshold,
\* an append that is rejected returns an error and no certificate whatever
\* the weight is; every certificate returned passes the signer conditions
\* of CertifiedTransaction::check for the same committee: no authority
\* appears twice, every signer has positive weight, and the total weight
\* is at least quorum_threshold.
C39_AcceptedAppendCertifiesAtQuorum ==
    /\ aggregator.weight = VotesOf(Signers(aggregator.signatures))
    /\ Signers(aggregator.signatures) \subseteq aggregator.used_authorities
    /\ outcome.kind \in {"Some", "None"} =>
           (outcome.kind = "Some"
                <=> aggregator.weight >= quorum_threshold(aggregator.committee))
    /\ outcome.kind = "Some" =>
           LET certificate == outcome.certificate
           IN  /\ certificate = aggregator.signatures
               /\ check(certificate, aggregator.committee) = "Ok"
               /\ \A i, j \in 1..Len(certificate) :
                      certificate[i] = certificate[j] => i = j
               /\ \A i \in 1..Len(certificate) :
                      weight(aggregator.committee, certificate[i]) > 0
               /\ VotesOf(Signers(certificate))
                      >= quorum_threshold(aggregator.committee)

\* A certificate of several signatures has been returned after the
\* signature of a name outside the committee had been rejected.
C39_Witness ==
    /\ outcome.kind = "Some"
    /\ Len(outcome.certificate) >= 2
    /\ Stranger \in aggregator.used_authorities

\* C39 (as stated): whatever an append is given, it returns a certificate
\* exactly when the accumulated weight of the distinct authorities appended
\* so far reaches quorum_threshold.
C39_CertificateWheneverQuorumReached ==
    Appended =>
        (outcome.kind = "Some"
             <=> VotesOf(Signers(aggregator.signatures))
                     >= quorum_threshold(aggregator.committee))
=============================================================================
